---- MODULE Spec2Model ----
(***************************************************************************)
(* Indexed skip list of INLOpen/skiplist (package skiplist).                *)
(*                                                                         *)
(* The list is modelled as a heap of nodes: every node has a key, a value,  *)
(* a backward pointer and the two slices forward and span.  Level i of the  *)
(* Go slices is index i+1 of the sequences used here.  The header is the    *)
(* node with address Header; Nil is Go's nil pointer.                       *)
(***************************************************************************)
EXTENDS Integers, Sequences, FiniteSets, TLC

\* ------------------------------------------------------------------ bounds
\* Keys are 1..MaxKey.
MaxKey == 2
\* Number of levels of the list (MaxLevel is 32 in the source; the model
\* keeps the constant's role and makes it small).
MaxLevel == 2
\* Largest span the model lets a link reach.
MaxSpan == 2
\* Number of nodes the first chunk of the arena holds (initialSize / nodeSize).
InitialCount == 1
\* Number of slots of the arena the model follows: it stops allocating when
\* Get would hand out a slot beyond them.
MaxSlots == 7

Keys == 1 .. MaxKey
Levels == 0 .. (MaxLevel - 1)
\* Values are never inspected by the list, two distinct ones tell an old
\* value from a new one.
Values == {"a", "b"}
\* Addresses of the nodes the allocator can hand out.
NodeIds == 1 .. MaxKey
Header == 0
Nil == -1
\* Go zero values of K (int) and V (string), written by node.reset().
ZeroK == 0
ZeroV == ""

\* cmp.Compare on ordered keys.
compare(a, b) == IF a < b THEN -1 ELSE IF a > b THEN 1 ELSE 0

\* &node[K, V]{} : the zero node sync.Pool's New returns.
ZeroNode ==
  [key |-> ZeroK, value |-> ZeroV, backward |-> Nil,
   forward |-> << >>, span |-> << >>]

\* header := &node{forward: make(.., MaxLevel), span: make(.., MaxLevel)}
HeaderNode ==
  [key |-> ZeroK, value |-> ZeroV, backward |-> Nil,
   forward |-> [i \in 1 .. MaxLevel |-> Nil],
   span |-> [i \in 1 .. MaxLevel |-> 0]]

\* NewWithComparator: the list right after construction (pool allocator).
NewList ==
  [nodes |-> [n \in {Header} \cup NodeIds |->
                IF n = Header THEN HeaderNode ELSE ZeroNode],
   level |-> 0,
   length |-> 0,
   pool |-> {}]

\* ------------------------------------------------------------ node access
Fwd(L, n, i) == L.nodes[n].forward[i + 1]
Span(L, n, i) == L.nodes[n].span[i + 1]
KeyOf(L, n) == L.nodes[n].key
ValueOf(L, n) == L.nodes[n].value

\* A handle (INode) returned to the caller: either a pointer into the heap
\* (id # Nil) or a private copy made by PopMin/PopMax (id = Nil).
NoHandle == [id |-> Nil, key |-> ZeroK, value |-> ZeroV, nil |-> TRUE]
RefHandle(n) == [id |-> n, key |-> ZeroK, value |-> ZeroV, nil |-> FALSE]
CopyHandle(k, v) == [id |-> Nil, key |-> k, value |-> v, nil |-> FALSE]
\* node.Key() / node.Value() read through a handle in list state L.
HandleKey(L, h) == IF h.id # Nil THEN L.nodes[h.id].key ELSE h.key
HandleValue(L, h) == IF h.id # Nil THEN L.nodes[h.id].value ELSE h.value

\* --------------------------------------------------------------- allocator
RECURSIVE ChainFrom(_, _)
\* The nodes of the base level in order: header.forward[0], its forward[0], ...
ChainFrom(L, n) ==
  IF n = Nil THEN << >> ELSE << n >> \o ChainFrom(L, L.nodes[n].forward[1])
Chain(L) == ChainFrom(L, L.nodes[Header].forward[1])
Live(L) == {Chain(L)[j] : j \in 1 .. Len(Chain(L))}

\* Addresses never handed out (or garbage collected): pool.New makes them.
Fresh(L) == NodeIds \ (Live(L) \cup L.pool)
MinOf(S) == CHOOSE x \in S : \A y \in S : x <= y
MaxOf(S) == CHOOSE x \in S : \A y \in S : x >= y

\* poolAllocator.Get: sync.Pool hands out any pooled node or a new zero node.
GetChoices(L) == L.pool \cup Fresh(L)

\* sync.Pool drops its items at a garbage collection: the pooled nodes, to
\* which nothing refers, are zero nodes of pool.New again.
Collect(L) ==
  [L EXCEPT !.nodes = [n \in DOMAIN L.nodes |->
                         IF n \in L.pool THEN ZeroNode ELSE L.nodes[n]],
            !.pool = {}]

\* node.reset(): key, value, backward zeroed; clear() keeps the slices' length.
reset(nd) ==
  [key |-> ZeroK, value |-> ZeroV, backward |-> Nil,
   forward |-> [j \in DOMAIN nd.forward |-> Nil],
   span |-> [j \in DOMAIN nd.span |-> 0]]

\* poolAllocator.Put
Put(L, n) ==
  [L EXCEPT !.nodes[n] = reset(L.nodes[n]), !.pool = L.pool \cup {n}]

\* --------------------------------------------------------- arena allocator
\* A chunk is a slice of nodes; the arena is modelled by the lengths of its
\* chunks, the nodes themselves are in the heap of the list.  The slots are
\* numbered through the chunks: the first chunk holds the addresses
\* 1 .. chunks[1], the second one the next chunks[2], and so on.
ArenaIds == 1 .. MaxSlots

\* Faulty variant: once there is a chunk none is appended, the last chunk is
\* used again.
arenaGrowReuses(a) ==
  IF Len(a.chunks) = 0
  THEN [chunks |-> << a.nextChunkSize >>, pos |-> 0,
        nextChunkSize |-> a.nextChunkSize * 2]
  ELSE [a EXCEPT !.pos = 0]

\* arenaAllocator.grow
arenaGrow(a) ==
  LET size == IF a.nextChunkSize < 1 THEN 1 ELSE a.nextChunkSize
  IN [chunks |-> Append(a.chunks, size), pos |-> 0, nextChunkSize |-> size * 2]

\* newArenaAllocator: the first chunk is allocated at construction.
newArenaAllocator ==
  arenaGrow([chunks |-> << >>, pos |-> 0,
             nextChunkSize |-> IF InitialCount < 1 THEN 1 ELSE InitialCount])

RECURSIVE ChunkBase(_, _)
\* The number of slots in the chunks before chunk c.
ChunkBase(a, c) == IF c <= 1 THEN 0 ELSE a.chunks[c - 1] + ChunkBase(a, c - 1)

\* The last chunk has no unused slot.
ChunkExhausted(a) == a.pos >= a.chunks[Len(a.chunks)]

\* arenaAllocator.Get: the allocator afterwards and the address of the slot.
arenaGet(a) ==
  LET a1 == IF Len(a.chunks) = 0 THEN arenaGrow(a) ELSE a
      a2 == IF ChunkExhausted(a1) THEN arenaGrow(a1) ELSE a1
  IN [arena |-> [a2 EXCEPT !.pos = a2.pos + 1],
      ret |-> ChunkBase(a2, Len(a2.chunks)) + a2.pos + 1]

\* arenaAllocator.Put: a no-op.
arenaPut(L, n) == L

\* arenaAllocator.Reset: the first chunk is kept, the others are dropped.
arenaReset(a) ==
  IF Len(a.chunks) = 0 THEN a
  ELSE [chunks |-> << a.chunks[1] >>, pos |-> 0, nextChunkSize |-> a.chunks[1]]

\* unsafe.Sizeof(node[K, V]{}) in bytes; its value on the platform plays no
\* part, 2 lets a number of bytes hold a fraction of a node.
NodeSize == 2

\* The arena options of New: WithArenaGrowthBytes(bytes) and
\* WithArenaGrowthFactor(num / den); 0 when the option is not given.
NoFactor == [num |-> 0, den |-> 1]
ArenaOptions ==
  {[arenaGrowthBytes |-> b, arenaGrowthFactor |-> f] :
     b \in {0, (2 * NodeSize) + 1}, f \in {NoFactor, [num |-> 3, den |-> 1]}}

\* New(WithArena(..), opts): the list right after construction with an
\* arena.  The options are stored in the list and handed to
\* newArenaAllocator, which does not read them.
NewArenaList(opts) ==
  [nodes |-> [n \in {Header} \cup ArenaIds |->
                IF n = Header THEN HeaderNode ELSE ZeroNode],
   level |-> 0,
   length |-> 0,
   pool |-> {},
   arenaGrowthBytes |-> opts.arenaGrowthBytes,
   arenaGrowthFactor |-> opts.arenaGrowthFactor,
   arena |-> newArenaAllocator]

\* sl.allocator is an *arenaAllocator.
IsArena(L) == "arena" \in DOMAIN L

\* sl.allocator.Put(cnodeRemove)
AllocatorPut(L, n) == IF IsArena(L) THEN arenaPut(L, n) ELSE Put(L, n)

\* sl.allocator.Get() of a list with an arena: *n = node[K, V]{} zeroes the
\* slot that is handed out.
ArenaTake(L) ==
  LET g == arenaGet(L.arena)
  IN [list |-> [L EXCEPT !.nodes[g.ret] = ZeroNode, !.arena = g.arena],
      ret |-> g.ret]

\* A removed node stays in its chunk until Reset.  Nothing refers to it and
\* Get zeroes a slot before it hands it out, so what it holds is never read:
\* the model keeps zero nodes in the slots that are not in the list.
Forget(L) ==
  [L EXCEPT !.nodes = [n \in DOMAIN L.nodes |->
                         IF n = Header \/ n \in Live(L) THEN L.nodes[n]
                         ELSE ZeroNode]]

\* -------------------------------------------------------------------- Insert
\* Faulty variant: the inner loop never moves right.
InsertAdvanceStays(L, key, current, i, rank) ==
  [current |-> current, rank |-> rank]

RECURSIVE InsertAdvance(_, _, _, _, _)
\* Inner loop of Insert at level i: move right while the next key is smaller,
\* adding the spans that are crossed to the rank.
InsertAdvance(L, key, current, i, rank) ==
  LET nxt == Fwd(L, current, i) IN
  IF nxt # Nil /\ compare(KeyOf(L, nxt), key) < 0
  THEN InsertAdvance(L, key, nxt, i, rank + Span(L, current, i))
  ELSE [current |-> current, rank |-> rank]

RECURSIVE InsertDescend(_, _, _, _, _, _)
\* Outer loop of Insert, from level i down to 0.
InsertDescend(L, key, current, i, update, ranks) ==
  LET r0 == IF i = L.level THEN 0 ELSE ranks[i + 1]
      a == InsertAdvance(L, key, current, i, r0)
      u == [update EXCEPT ![i] = a.current]
      r == [ranks EXCEPT ![i] = a.rank]
  IN IF i = 0
     THEN [update |-> u, ranks |-> r, current |-> a.current]
     ELSE InsertDescend(L, key, a.current, i - 1, u, r)

\* update path and rank prefix of key.  The scratch slices updateCache and
\* updateCacheRanks are written before they are read in every call, so each
\* call starts from an unset path (a read of an unset entry is an error).
InsertPath(L, key) ==
  InsertDescend(L, key, Header, L.level,
                [i \in Levels |-> Nil], [i \in Levels |-> 0])

\* Faulty variant: the new node itself is not counted.
NewSpanWithoutTarget(ranks, i) == ranks[0] - ranks[i]

\* newSpan := (ranks[0] - ranks[i]) + 1
NewSpan(ranks, i) == (ranks[0] - ranks[i]) + 1

\* sl.header.span[i] = sl.length for the levels a taller node adds.
GrownHeaderSpan(L) == L.length

\* Insert of a key that is not stored, up to the backward pointers: node n of
\* the allocator gets newLevel levels and is linked after path p.
InsertLink(L, p, key, value, newLevel, n) ==
  LET grows == newLevel - 1 > L.level
      newLevels == IF grows THEN (L.level + 1) .. (newLevel - 1) ELSE {}
      update == [i \in Levels |-> IF i \in newLevels THEN Header ELSE p.update[i]]
      ranks == [i \in Levels |-> IF i \in newLevels THEN 0 ELSE p.ranks[i]]
      level2 == IF grows THEN newLevel - 1 ELSE L.level
      nodes1 == [L.nodes EXCEPT ![Header].span =
                   [j \in 1 .. MaxLevel |->
                      IF (j - 1) \in newLevels THEN GrownHeaderSpan(L) ELSE @[j]]]
      newNode == [key |-> key, value |-> value, backward |-> update[0],
                  forward |-> [j \in 1 .. newLevel |->
                                 nodes1[update[j - 1]].forward[j]],
                  span |-> [j \in 1 .. newLevel |->
                              nodes1[update[j - 1]].span[j]
                                - (NewSpan(ranks, j - 1) - 1)]]
      nodes2 == [m \in DOMAIN nodes1 |->
                   IF m = n THEN newNode
                   ELSE [nodes1[m] EXCEPT
                           !.forward = [j \in DOMAIN @ |->
                              IF j <= newLevel /\ update[j - 1] = m
                              THEN n ELSE @[j]],
                           !.span = [j \in DOMAIN @ |->
                              IF j <= level2 + 1 /\ update[j - 1] = m
                              THEN (IF j <= newLevel
                                    THEN NewSpan(ranks, j - 1)
                                    ELSE @[j] + 1)
                              ELSE @[j]]]]
      succ == newNode.forward[1]
      nodes3 == IF succ # Nil
                THEN [nodes2 EXCEPT ![succ].backward = n]
                ELSE nodes2
  IN [L EXCEPT !.nodes = nodes3, !.level = level2, !.pool = L.pool \ {n}]

\* Insert of a key that is not stored up to the call of allocator.Get: the
\* levels a taller node adds get the header as update node and sl.length as
\* header span, and sl.level is raised.
InsertRaiseLevel(L, newLevel) ==
  IF newLevel - 1 > L.level
  THEN [L EXCEPT !.nodes[Header].span =
                    [j \in 1 .. MaxLevel |->
                       IF (j - 1) \in (L.level + 1) .. (newLevel - 1)
                       THEN GrownHeaderSpan(L) ELSE @[j]],
                 !.level = newLevel - 1]
  ELSE L

\* Faulty variant: the new node is linked and length is not incremented.
InsertNewKeepsLength(L, p, key, value, newLevel, n) ==
  InsertLink(L, p, key, value, newLevel, n)

\* Insert of a key that is not stored: link the node, then sl.length++
InsertNew(L, p, key, value, newLevel, n) ==
  [InsertLink(L, p, key, value, newLevel, n) EXCEPT !.length = L.length + 1]

\* Faulty variant: the value of a stored key is not overwritten.
InsertUpdateDropsValue(L, current, value) == L

\* Faulty variant: an update counts as a new node.
InsertUpdateCountsNode(L, current, value) ==
  [L EXCEPT !.nodes[current].value = value, !.length = L.length + 1]

\* Insert of a stored key: current.value = value
InsertUpdate(L, current, value) == [L EXCEPT !.nodes[current].value = value]

\* ---------------------------------------------------------------- deleteNode
\* Faulty variant: the level is not lowered when the top levels empty.
ShrinkLevelNever(nodes, level) == level

RECURSIVE ShrinkLevel(_, _)
\* for sl.level > 0 && sl.header.forward[sl.level] == nil { sl.level-- }
ShrinkLevel(nodes, level) ==
  IF level > 0 /\ nodes[Header].forward[level + 1] = Nil
  THEN ShrinkLevel(nodes, level - 1)
  ELSE level

\* Span of update[i] after node x is unlinked at level i.
UnlinkSpan(L, m, x, j) ==
  IF L.nodes[m].forward[j] = x
  THEN L.nodes[m].span[j] + L.nodes[x].span[j] - 1
  ELSE IF L.nodes[m].forward[j] # Nil
       THEN L.nodes[m].span[j] - 1
       ELSE L.nodes[m].span[j]

\* Faulty variant: the successor keeps pointing back at the removed node.
SuccBackwardStale(L, x) == x

\* cnodeRemove.forward[0].backward = cnodeRemove.backward
SuccBackward(L, x) == L.nodes[x].backward

\* deleteNode up to allocator.Put: unlink x at every level, lower the level,
\* fix the backward pointer of the successor, release x.
Unlink(L, x, update) ==
  LET nodes1 == [m \in DOMAIN L.nodes |->
                   [L.nodes[m] EXCEPT
                      !.forward = [j \in DOMAIN @ |->
                         IF j - 1 <= L.level /\ update[j - 1] = m /\ @[j] = x
                         THEN L.nodes[x].forward[j] ELSE @[j]],
                      !.span = [j \in DOMAIN @ |->
                         IF j - 1 <= L.level /\ update[j - 1] = m
                         THEN UnlinkSpan(L, m, x, j) ELSE @[j]]]]
      level2 == ShrinkLevel(nodes1, L.level)
      succ == L.nodes[x].forward[1]
      nodes2 == IF succ # Nil
                THEN [nodes1 EXCEPT ![succ].backward = SuccBackward(L, x)]
                ELSE nodes1
  IN AllocatorPut([L EXCEPT !.nodes = nodes2, !.level = level2], x)

\* Faulty variant: the node is unlinked and length is not decremented.
deleteNodeKeepsLength(L, x, update) == Unlink(L, x, update)

\* deleteNode: unlink and release the node, then sl.length--
deleteNode(L, x, update) ==
  [Unlink(L, x, update) EXCEPT !.length = L.length - 1]

\* -------------------------------------------------------------------- Delete
RECURSIVE DeleteAdvance(_, _, _, _)
DeleteAdvance(L, key, current, i) ==
  LET nxt == Fwd(L, current, i) IN
  IF nxt # Nil /\ compare(KeyOf(L, nxt), key) < 0
  THEN DeleteAdvance(L, key, nxt, i)
  ELSE current

RECURSIVE DeleteDescend(_, _, _, _, _)
DeleteDescend(L, key, current, i, update) ==
  LET c == DeleteAdvance(L, key, current, i)
      u == [update EXCEPT ![i] = c]
  IN IF i = 0 THEN [update |-> u, current |-> c]
     ELSE DeleteDescend(L, key, c, i - 1, u)

DeletePath(L, key) ==
  DeleteDescend(L, key, Header, L.level, [i \in Levels |-> Nil])

\* Delete's result: the list afterwards and the boolean it returns.
DeleteResult(L, key) ==
  LET p == DeletePath(L, key)
      current == Fwd(L, p.current, 0)
  IN IF current # Nil /\ compare(KeyOf(L, current), key) = 0
     THEN [list |-> deleteNode(L, current, p.update), ok |-> TRUE]
     ELSE [list |-> L, ok |-> FALSE]

\* --------------------------------------------------------------------- Clear
\* Faulty variant: level is not reset.
ClearKeepsLevel(L) ==
  [nodes |-> [n \in DOMAIN L.nodes |->
                IF n = Header
                THEN [L.nodes[Header] EXCEPT
                        !.forward = [j \in DOMAIN @ |-> Nil]]
                ELSE ZeroNode],
   level |-> L.level,
   length |-> 0,
   pool |-> {}]

\* level = 0, length = 0, header.forward[i] = nil for every i; the pool is
\* replaced by a new one.  The nodes of the old list are unreachable and are
\* collected: their addresses hold zero nodes again.  header.span is not
\* written.
ClearResult(L) ==
  [nodes |-> [n \in DOMAIN L.nodes |->
                IF n = Header
                THEN [L.nodes[Header] EXCEPT
                        !.forward = [j \in DOMAIN @ |-> Nil]]
                ELSE ZeroNode],
   level |-> 0,
   length |-> 0,
   pool |-> {}]

\* Clear while a caller still refers to nodes of the list: the nodes are not
\* collected and Clear writes none of them.
ClearKeepingNodes(L) ==
  [nodes |-> [L.nodes EXCEPT ![Header].forward = [j \in DOMAIN @ |-> Nil]],
   level |-> 0,
   length |-> 0,
   pool |-> {}]

\* Clear of a list with an arena: the same writes, then allocator.Reset().
ArenaClearResult(L) ==
  Forget([L EXCEPT !.nodes[Header].forward = [j \in DOMAIN @ |-> Nil],
                   !.level = 0,
                   !.length = 0,
                   !.arena = arenaReset(L.arena)])

\* -------------------------------------------------------------- PopMin/PopMax
\* Faulty variant: key and value are read after deleteNode has released the node.
PopMinResultReadsAfterPut(L) ==
  IF L.length = 0
  THEN [list |-> L, ret |-> NoHandle, ok |-> FALSE]
  ELSE LET nodeToRemove == Fwd(L, Header, 0)
           update == [i \in Levels |-> IF i <= L.level THEN Header ELSE Nil]
           after == deleteNode(L, nodeToRemove, update)
       IN [list |-> after,
           ret |-> CopyHandle(KeyOf(after, nodeToRemove),
                              ValueOf(after, nodeToRemove)),
           ok |-> TRUE]

PopMinResult(L) ==
  IF L.length = 0
  THEN [list |-> L, ret |-> NoHandle, ok |-> FALSE]
  ELSE LET nodeToRemove == Fwd(L, Header, 0)
           update == [i \in Levels |-> IF i <= L.level THEN Header ELSE Nil]
       IN [list |-> deleteNode(L, nodeToRemove, update),
           ret |-> CopyHandle(KeyOf(L, nodeToRemove), ValueOf(L, nodeToRemove)),
           ok |-> TRUE]

RECURSIVE LastAdvance(_, _, _)
LastAdvance(L, current, i) ==
  IF Fwd(L, current, i) # Nil THEN LastAdvance(L, Fwd(L, current, i), i)
  ELSE current
RECURSIVE LastDescend(_, _, _)
\* for i := level; i >= 0; i-- { for cur.forward[i] != nil { cur = ... } }
LastDescend(L, current, i) ==
  LET c == LastAdvance(L, current, i)
  IN IF i = 0 THEN c ELSE LastDescend(L, c, i - 1)

PopMaxResult(L) ==
  IF L.length = 0
  THEN [list |-> L, ret |-> NoHandle, ok |-> FALSE]
  ELSE LET lastNode == LastDescend(L, Header, L.level)
           keyToRemove == KeyOf(L, lastNode)
           p == DeletePath(L, keyToRemove)
           nodeToRemove == Fwd(L, p.current, 0)
       IN [list |-> deleteNode(L, nodeToRemove, p.update),
           ret |-> CopyHandle(KeyOf(L, nodeToRemove), ValueOf(L, nodeToRemove)),
           ok |-> TRUE]

\* ------------------------------------------------------------------- queries
\* A query returns a handle and the found flag.
Found(n) == [ret |-> RefHandle(n), ok |-> TRUE]
NotFound == [ret |-> NoHandle, ok |-> FALSE]

RECURSIVE SearchAdvance(_, _, _, _)
SearchAdvance(L, key, current, i) ==
  LET nxt == Fwd(L, current, i) IN
  IF nxt # Nil /\ compare(KeyOf(L, nxt), key) < 0
  THEN SearchAdvance(L, key, nxt, i)
  ELSE current
RECURSIVE SearchDescend(_, _, _, _)
SearchDescend(L, key, current, i) ==
  LET c == SearchAdvance(L, key, current, i)
  IN IF i = 0 THEN c ELSE SearchDescend(L, key, c, i - 1)

Search(L, key) ==
  LET current == Fwd(L, SearchDescend(L, key, Header, L.level), 0)
  IN IF current # Nil /\ compare(KeyOf(L, current), key) = 0
     THEN Found(current) ELSE NotFound

\* SkipList.Len (Len is the Sequences operator)
Length(L) == L.length

RECURSIVE RangeFrom(_, _, _)
\* Range's loop: visit current, stop when f returns false (f is given by the
\* set of keys at which it returns false), else go to forward[0].
RangeFrom(L, current, stopKeys) ==
  IF current = Nil THEN << >>
  ELSE IF KeyOf(L, current) \in stopKeys
       THEN << << KeyOf(L, current), ValueOf(L, current) >> >>
       ELSE << << KeyOf(L, current), ValueOf(L, current) >> >>
              \o RangeFrom(L, Fwd(L, current, 0), stopKeys)

\* The sequence of (key, value) pairs Range passes to its visitor.
Range(L, stopKeys) == RangeFrom(L, Fwd(L, Header, 0), stopKeys)

\* Faulty variant: Min without the test for the empty list.
MinWithoutEmptyCheck(L) == Found(Fwd(L, Header, 0))

Min(L) ==
  IF L.length = 0 THEN NotFound ELSE Found(Fwd(L, Header, 0))

Max(L) ==
  IF L.length = 0 THEN NotFound ELSE Found(LastDescend(L, Header, L.level))

RECURSIVE GEAdvance(_, _, _, _)
GEAdvance(L, key, current, i) ==
  LET nxt == Fwd(L, current, i) IN
  IF nxt # Nil /\ compare(KeyOf(L, nxt), key) < 0
  THEN GEAdvance(L, key, nxt, i)
  ELSE current
RECURSIVE GEDescend(_, _, _, _)
GEDescend(L, key, current, i) ==
  LET c == GEAdvance(L, key, current, i)
  IN IF i = 0 THEN c ELSE GEDescend(L, key, c, i - 1)

\* First node with key >= key, or Nil.
findGreaterOrEqual(L, key) == Fwd(L, GEDescend(L, key, Header, L.level), 0)

Seek(L, key) ==
  LET node == findGreaterOrEqual(L, key)
  IN IF node # Nil THEN Found(node) ELSE NotFound

RECURSIVE RangeQueryFromStopsBefore(_, _, _, _)
\* Faulty variant: the element at which f returns false is not visited.
RangeQueryFromStopsBefore(L, current, end, stopKeys) ==
  IF current # Nil /\ compare(KeyOf(L, current), end) <= 0
        /\ KeyOf(L, current) \notin stopKeys
  THEN << << KeyOf(L, current), ValueOf(L, current) >> >>
         \o RangeQueryFromStopsBefore(L, Fwd(L, current, 0), end, stopKeys)
  ELSE << >>

RECURSIVE RangeQueryFrom(_, _, _, _)
RangeQueryFrom(L, current, end, stopKeys) ==
  IF current # Nil /\ compare(KeyOf(L, current), end) <= 0
  THEN IF KeyOf(L, current) \in stopKeys
       THEN << << KeyOf(L, current), ValueOf(L, current) >> >>
       ELSE << << KeyOf(L, current), ValueOf(L, current) >> >>
              \o RangeQueryFrom(L, Fwd(L, current, 0), end, stopKeys)
  ELSE << >>

\* The sequence of (key, value) pairs RangeQuery passes to its visitor.
RangeQuery(L, start, end, stopKeys) ==
  RangeQueryFrom(L, findGreaterOrEqual(L, start), end, stopKeys)

RECURSIVE PredAdvance(_, _, _, _)
PredAdvance(L, key, current, i) ==
  LET nxt == Fwd(L, current, i) IN
  IF nxt # Nil /\ compare(KeyOf(L, nxt), key) < 0
  THEN PredAdvance(L, key, nxt, i)
  ELSE current
RECURSIVE PredDescend(_, _, _, _)
PredDescend(L, key, current, i) ==
  LET c == PredAdvance(L, key, current, i)
  IN IF i = 0 THEN c ELSE PredDescend(L, key, c, i - 1)

Predecessor(L, key) ==
  LET current == PredDescend(L, key, Header, L.level)
  IN IF current # Header THEN Found(current) ELSE NotFound

RECURSIVE CountFrom(_, _, _)
CountFrom(L, current, end) ==
  IF current # Nil /\ compare(KeyOf(L, current), end) <= 0
  THEN 1 + CountFrom(L, Fwd(L, current, 0), end)
  ELSE 0

CountRange(L, start, end) ==
  IF compare(start, end) > 0 THEN 0
  ELSE CountFrom(L, findGreaterOrEqual(L, start), end)

RECURSIVE SuccAdvanceStrict(_, _, _, _)
\* Faulty variant: the walk stops before a node whose key equals key.
SuccAdvanceStrict(L, key, current, i) ==
  LET nxt == Fwd(L, current, i) IN
  IF nxt # Nil /\ compare(KeyOf(L, nxt), key) < 0
  THEN SuccAdvanceStrict(L, key, nxt, i)
  ELSE current

RECURSIVE SuccAdvance(_, _, _, _)
SuccAdvance(L, key, current, i) ==
  LET nxt == Fwd(L, current, i) IN
  IF nxt # Nil /\ compare(KeyOf(L, nxt), key) <= 0
  THEN SuccAdvance(L, key, nxt, i)
  ELSE current
RECURSIVE SuccDescend(_, _, _, _)
SuccDescend(L, key, current, i) ==
  LET c == SuccAdvance(L, key, current, i)
  IN IF i = 0 THEN c ELSE SuccDescend(L, key, c, i - 1)

Successor(L, key) ==
  LET current == SuccDescend(L, key, Header, L.level)
  IN IF current # Nil /\ Fwd(L, current, 0) # Nil
     THEN Found(Fwd(L, current, 0)) ELSE NotFound

RECURSIVE RankAdvanceCountsEnd(_, _, _, _, _)
\* Faulty variant: the span of a link to nil is added when the walk ends at
\* the end of a level.
RankAdvanceCountsEnd(L, key, current, i, rank) ==
  LET nxt == Fwd(L, current, i) IN
  IF nxt # Nil /\ compare(KeyOf(L, nxt), key) < 0
  THEN RankAdvanceCountsEnd(L, key, nxt, i, rank + Span(L, current, i))
  ELSE IF nxt = Nil /\ i > 0
       THEN [current |-> current, rank |-> rank + Span(L, current, i)]
       ELSE [current |-> current, rank |-> rank]

RECURSIVE RankAdvance(_, _, _, _, _)
RankAdvance(L, key, current, i, rank) ==
  LET nxt == Fwd(L, current, i) IN
  IF nxt # Nil /\ compare(KeyOf(L, nxt), key) < 0
  THEN RankAdvance(L, key, nxt, i, rank + Span(L, current, i))
  ELSE [current |-> current, rank |-> rank]
RECURSIVE RankDescend(_, _, _, _, _)
RankDescend(L, key, current, i, rank) ==
  LET a == RankAdvance(L, key, current, i, rank)
  IN IF i = 0 THEN a.rank ELSE RankDescend(L, key, a.current, i - 1, a.rank)

Rank(L, key) == RankDescend(L, key, Header, L.level, 0)

RECURSIVE GetByRankAdvanceStrict(_, _, _, _, _)
\* Faulty variant: the loop stops one link early (< instead of <=).
GetByRankAdvanceStrict(L, rank, current, i, traversed) ==
  IF Fwd(L, current, i) # Nil /\ (traversed + Span(L, current, i)) < rank
  THEN GetByRankAdvanceStrict(L, rank, Fwd(L, current, i), i,
                              traversed + Span(L, current, i))
  ELSE [current |-> current, traversed |-> traversed]

RECURSIVE GetByRankAdvance(_, _, _, _, _)
GetByRankAdvance(L, rank, current, i, traversed) ==
  IF Fwd(L, current, i) # Nil /\ (traversed + Span(L, current, i)) <= rank
  THEN GetByRankAdvance(L, rank, Fwd(L, current, i), i,
                        traversed + Span(L, current, i))
  ELSE [current |-> current, traversed |-> traversed]
RECURSIVE GetByRankDescend(_, _, _, _, _)
GetByRankDescend(L, rank, current, i, traversed) ==
  LET a == GetByRankAdvance(L, rank, current, i, traversed)
  IN IF i = 0 THEN a.current
     ELSE GetByRankDescend(L, rank, a.current, i - 1, a.traversed)

GetByRank(L, rank) ==
  IF rank < 0 \/ rank >= L.length THEN NotFound
  ELSE Found(GetByRankDescend(L, rank, Header, L.level, -1))

\* ------------------------------------------------------- whole operations
\* randomLevel: any height in 1..MaxLevel can be sampled.
randomLevel == 1 .. MaxLevel

\* Insert(key, value) when height newLevel is sampled and the allocator
\* returns node n (both unused when the key is stored).
InsertResult(L, key, value, newLevel, n) ==
  LET p == InsertPath(L, key)
      current == Fwd(L, p.current, 0)
  IN IF current # Nil /\ compare(KeyOf(L, current), key) = 0
     THEN [list |-> InsertUpdate(L, current, value), ret |-> RefHandle(current)]
     ELSE [list |-> InsertNew(L, p, key, value, newLevel, n), ret |-> NoHandle]

\* Insert when allocator.Get panics ("skiplist (arena): out of memory"): the
\* deferred Unlock runs and the list is left as the statements before Get
\* made it.  No node is allocated for a stored key.
InsertAborted(L, key, value, newLevel) ==
  LET p == InsertPath(L, key)
      current == Fwd(L, p.current, 0)
  IN IF current # Nil /\ compare(KeyOf(L, current), key) = 0
     THEN InsertUpdate(L, current, value)
     ELSE InsertRaiseLevel(L, newLevel)

\* The key is stored: Insert takes its update branch.
Stored(L, key) == Search(L, key).ok

\* ---------------------------------------------------------- reference map
\* A sorted map key -> value, driven by the operations alone.
Absent == "absent"
EmptyRef == [k \in Keys |-> Absent]
RefKeys(r) == {k \in Keys : r[k] # Absent}
RECURSIVE SortedFrom(_, _)
\* The (key, value) pairs of r with key >= k, ascending.
SortedFrom(r, k) ==
  IF k > MaxKey THEN << >>
  ELSE (IF r[k] # Absent THEN << << k, r[k] >> >> ELSE << >>)
         \o SortedFrom(r, k + 1)
RefSorted(r) == SortedFrom(r, 1)
RefPopMin(r) == IF RefKeys(r) = {} THEN r ELSE [r EXCEPT ![MinOf(RefKeys(r))] = Absent]
RefPopMax(r) == IF RefKeys(r) = {} THEN r ELSE [r EXCEPT ![MaxOf(RefKeys(r))] = Absent]

\* ----------------------------------------------------------------- state
VARIABLES
  sl,      \* the SkipList
  last,    \* the latest mutating call: its name and whether it found a key
  ref,     \* reference sorted map driven by the same operations
  fresh,   \* a list constructed anew at the latest Clear, same operations
  agree,   \* the results returned since then by sl and by fresh were equal
  mutex,   \* sl.mutex, the sync.RWMutex of the list
  pc,      \* where each thread is in the public call it is executing
  it,      \* the iterator returned by RangeIterator
  plan,    \* what the threads of the disjoint-keys workload still have to do
  cursor   \* a safe iterator of one thread and the keys its loop has collected

vars == << sl, last, ref, fresh, agree, mutex, pc, it, plan, cursor >>
\* The state of the threads and of the lock.
lockVars == << mutex, pc, it, plan, cursor >>
\* The state that belongs to the single-threaded specifications.
seqVars == << last, ref, fresh, agree >>

\* The threads that call the list.
Threads == {"t1", "t2", "t3"}
NoThread == "none"
\* sync.RWMutex: w is the writer that holds the internal mutex (it has
\* announced itself, new readers wait), readerCount the readers inside.
UnlockedMutex == [w |-> NoThread, readerCount |-> 0]
\* No iterator has been made by RangeIterator yet.
NoIterator == [owner |-> NoThread, lockHeld |-> 0, released |-> 0]
\* The keys thread t works on: the threads share out the keys in turn.
ThreadIndex(t) == IF t = "t1" THEN 1 ELSE IF t = "t2" THEN 2 ELSE 0
OwnKeys(t) == {k \in Keys : k % Cardinality(Threads) = ThreadIndex(t)}
\* Every thread starts by inserting its own keys.
InsertPlan ==
  [phase |-> "insert", deleters |-> {}, todo |-> [t \in Threads |-> OwnKeys(t)],
   lenBefore |-> 0]

\* No iterator has been created by the iterating thread yet.
NoCursor ==
  [made |-> FALSE, iter |-> [current |-> -1], before |-> {}, keys |-> << >>,
   done |-> FALSE]

Call(op, ok) == [op |-> op, ok |-> ok]

\* What a caller reads from a result: found flag, key and value.
View(L, r) ==
  IF r.ret.nil THEN << r.ok >>
  ELSE << r.ok, HandleKey(L, r.ret), HandleValue(L, r.ret) >>

\* The spans are Go ints and the span of a link to nil is never decremented:
\* the model stops before any span exceeds MaxSpan.
SpanOK(L) ==
  \A n \in DOMAIN L.nodes : \A j \in DOMAIN L.nodes[n].span :
     L.nodes[n].span[j] <= MaxSpan

Init ==
  /\ sl = NewList
  /\ last = Call("New", FALSE)
  /\ ref = EmptyRef
  /\ fresh = NewList
  /\ agree = TRUE
  /\ mutex = UnlockedMutex
  /\ pc = [t \in Threads |-> "idle"]
  /\ it = NoIterator
  /\ plan = InsertPlan
  /\ cursor = NoCursor

\* Every free node is the same zero node to Insert, so which of them Get
\* returns is not observable: the node numbered like the key stands for them.
InsertNode(L, key) == {n \in GetChoices(L) : n = key}

\* The operations on sl and on the reference map; r is the operation's result.
DoInsert(r, key, value) ==
  /\ SpanOK(r.list)
  /\ sl' = r.list
  /\ last' = Call("Insert", ~r.ret.nil)
  /\ ref' = [ref EXCEPT ![key] = value]

DoDelete(r, key) ==
  /\ sl' = Collect(r.list)
  /\ last' = Call("Delete", r.ok)
  /\ ref' = [ref EXCEPT ![key] = Absent]

DoPopMin(r) ==
  /\ sl' = Collect(r.list)
  /\ last' = Call("PopMin", r.ok)
  /\ ref' = RefPopMin(ref)

DoPopMax(r) ==
  /\ sl' = Collect(r.list)
  /\ last' = Call("PopMax", r.ok)
  /\ ref' = RefPopMax(ref)

DoClear ==
  /\ sl' = ClearResult(sl)
  /\ last' = Call("Clear", FALSE)
  /\ ref' = EmptyRef

\* The same operations on the list constructed at the latest Clear; r is the
\* result on sl and f the result on fresh.
AlsoInsert(r, f) ==
  /\ SpanOK(f.list)
  /\ fresh' = f.list
  /\ agree' = (agree /\ View(r.list, [ok |-> TRUE, ret |-> r.ret])
                          = View(f.list, [ok |-> TRUE, ret |-> f.ret]))

AlsoDelete(r, f) ==
  /\ fresh' = Collect(f.list)
  /\ agree' = (agree /\ r.ok = f.ok)

AlsoPopMin(r, f) ==
  /\ fresh' = Collect(f.list)
  /\ agree' = (agree /\ View(r.list, r) = View(f.list, f))

AlsoPopMax(r, f) ==
  /\ fresh' = Collect(f.list)
  /\ agree' = (agree /\ View(r.list, r) = View(f.list, f))

AlsoClear ==
  /\ fresh' = NewList
  /\ agree' = TRUE

Insert(key, value) ==
  IF Stored(sl, key)
  THEN /\ DoInsert(InsertResult(sl, key, value, 1, Nil), key, value)
       /\ UNCHANGED << fresh, agree, lockVars >>
  ELSE \E newLevel \in randomLevel, n \in InsertNode(sl, key) :
         /\ DoInsert(InsertResult(sl, key, value, newLevel, n), key, value)
         /\ UNCHANGED << fresh, agree, lockVars >>

Delete(key) == DoDelete(DeleteResult(sl, key), key) /\ UNCHANGED << fresh, agree, lockVars >>
PopMin == DoPopMin(PopMinResult(sl)) /\ UNCHANGED << fresh, agree, lockVars >>
PopMax == DoPopMax(PopMaxResult(sl)) /\ UNCHANGED << fresh, agree, lockVars >>
Clear == DoClear /\ UNCHANGED << fresh, agree, lockVars >>

Next ==
  \/ \E key \in Keys, value \in Values : Insert(key, value)
  \/ \E key \in Keys : Delete(key)
  \/ PopMin
  \/ PopMax
  \/ Clear

Spec == Init /\ [][Next]_vars

\* The lists the read-only operations (queries, iterators) are called on:
\* every list the mutating operations build.
SpecQueries == Init /\ [][Next]_vars

\* The lists the structural invariants are stated of: the list after every
\* completed mutating operation.
SpecStructure == Init /\ [][Next]_vars
\* The lists the iterators are stated of.
SpecIterators == Init /\ [][Next]_vars

\* ------------------------------------------------- the list with an arena
\* The arena workload inserts one-level nodes with one value: neither the
\* height nor the value of a node plays a part in the allocation.
ArenaLevels == {1}

InitArena ==
  /\ \E opts \in ArenaOptions : sl = NewArenaList(opts)
  /\ last = Call("New", FALSE)
  /\ ref = EmptyRef
  /\ fresh = NewList
  /\ agree = TRUE
  /\ mutex = UnlockedMutex
  /\ pc = [t \in Threads |-> "idle"]
  /\ it = NoIterator
  /\ plan = InsertPlan
  /\ cursor = NoCursor

\* The next allocation stays within the slots the model follows.
ArenaFits(L) == arenaGet(L.arena).ret <= MaxSlots

\* Insert on the list with an arena: no allocation when the key is stored.
ArenaInsert(key) ==
  IF Stored(sl, key)
  THEN /\ DoInsert(InsertResult(sl, key, "a", 1, Nil), key, "a")
       /\ UNCHANGED << fresh, agree, lockVars >>
  ELSE /\ ArenaFits(sl)
       /\ \E newLevel \in ArenaLevels :
             DoInsert(InsertResult(ArenaTake(sl).list, key, "a", newLevel,
                                   ArenaTake(sl).ret), key, "a")
       /\ UNCHANGED << fresh, agree, lockVars >>

ArenaDelete(key) ==
  /\ sl' = Forget(DeleteResult(sl, key).list)
  /\ last' = Call("Delete", DeleteResult(sl, key).ok)
  /\ ref' = [ref EXCEPT ![key] = Absent]
  /\ UNCHANGED << fresh, agree, lockVars >>

ArenaClear ==
  /\ sl' = ArenaClearResult(sl)
  /\ last' = Call("Clear", FALSE)
  /\ ref' = EmptyRef
  /\ UNCHANGED << fresh, agree, lockVars >>

NextArena ==
  \/ \E key \in Keys : ArenaInsert(key)
  \/ \E key \in Keys : ArenaDelete(key)
  \/ ArenaClear

SpecArena == InitArena /\ [][NextArena]_vars

\* The list and, beside it, the list constructed at the latest Clear.
InsertBothWith(key, value, newLevel, n) ==
  LET r == InsertResult(sl, key, value, newLevel, n)
      f == InsertResult(fresh, key, value, newLevel, n)
  IN DoInsert(r, key, value) /\ AlsoInsert(r, f) /\ UNCHANGED lockVars

InsertBoth(key, value) ==
  IF Stored(sl, key)
  THEN InsertBothWith(key, value, 1, Nil)
  ELSE \E newLevel \in randomLevel, n \in InsertNode(sl, key) :
         InsertBothWith(key, value, newLevel, n)

DeleteBoth(key) ==
  LET r == DeleteResult(sl, key)
      f == DeleteResult(fresh, key)
  IN DoDelete(r, key) /\ AlsoDelete(r, f) /\ UNCHANGED lockVars

PopMinBoth ==
  LET r == PopMinResult(sl)
      f == PopMinResult(fresh)
  IN DoPopMin(r) /\ AlsoPopMin(r, f) /\ UNCHANGED lockVars

PopMaxBoth ==
  LET r == PopMaxResult(sl)
      f == PopMaxResult(fresh)
  IN DoPopMax(r) /\ AlsoPopMax(r, f) /\ UNCHANGED lockVars

ClearBoth == DoClear /\ AlsoClear /\ UNCHANGED lockVars

NextBoth ==
  \/ \E key \in Keys, value \in Values : InsertBoth(key, value)
  \/ \E key \in Keys : DeleteBoth(key)
  \/ PopMinBoth
  \/ PopMaxBoth
  \/ ClearBoth

SpecFresh == Init /\ [][NextBoth]_vars

\* ------------------------------------------------------- threads and lock
\* Every public method of SkipList starts with mutex.Lock() or mutex.RLock()
\* and ends, by defer, with the matching unlock.  A writer goes
\* idle -> "Lock" -> "drain" -> "locked" -> "writing" -> "written" -> idle,
\* where "writing" is between its first and its last write; a reader goes
\* idle -> "reading" -> idle.

\* The thread is executing inside the structure.
Inside(t) == pc[t] \in {"locked", "writing", "written", "reading", "iterating"}

\* Faulty variant: RLock does not wait for a writer.
CanRLockIgnoresWriter(m) == TRUE

\* RLock returns at once when no writer holds or waits for the lock.
CanRLock(m) == m.w = NoThread

\* Faulty variant: Lock does not wait for the readers that are inside.
CanLockIgnoresReaders(m) == TRUE

\* Faulty variant: Lock does not wait for the last reader.
CanLockBesideOneReader(m) == m.readerCount <= 1

\* Lock, after the internal mutex is taken, waits until the readers are gone.
CanLock(m) == m.readerCount = 0

\* A mutating method is called: mutex.Lock() begins.
CallLock(t) ==
  /\ pc[t] = "idle"
  /\ pc' = [pc EXCEPT ![t] = "Lock"]
  /\ UNCHANGED << sl, seqVars, mutex, it, plan, cursor >>

\* Lock takes the internal mutex of the RWMutex: from now on RLock waits.
TakeWriterMutex(t) ==
  /\ pc[t] \in {"Lock", "visitLock"}
  /\ mutex.w = NoThread
  /\ mutex' = [mutex EXCEPT !.w = t]
  /\ pc' = [pc EXCEPT ![t] = IF pc[t] = "Lock" THEN "drain" ELSE "visitDrain"]
  /\ UNCHANGED << sl, seqVars, it, plan, cursor >>

\* Lock returns when the readers that were inside have left.
WaitReaders(t) ==
  /\ pc[t] \in {"drain", "visitDrain"}
  /\ CanLock(mutex)
  /\ pc' = [pc EXCEPT ![t] = IF pc[t] = "drain" THEN "locked" ELSE "visitLocked"]
  /\ UNCHANGED << sl, seqVars, mutex, it, plan, cursor >>

\* The first write of the mutating method.
BeginWrite(t) ==
  /\ pc[t] = "locked"
  /\ pc' = [pc EXCEPT ![t] = "writing"]
  /\ UNCHANGED << sl, seqVars, mutex, it, plan, cursor >>

\* The writes of the mutating method are complete: the list is as the
\* method leaves it.
Written(t, after) ==
  /\ pc[t] = "writing"
  /\ sl' = after
  /\ pc' = [pc EXCEPT ![t] = "written"]
  /\ UNCHANGED << seqVars, mutex, it, cursor >>

\* The writes of Insert(key, value) and of Delete(key).
InsertWrites(t, key, value, levels) ==
  IF Stored(sl, key)
  THEN Written(t, InsertResult(sl, key, value, 1, Nil).list)
  ELSE \E newLevel \in levels, n \in InsertNode(sl, key) :
         /\ SpanOK(InsertResult(sl, key, value, newLevel, n).list)
         /\ Written(t, InsertResult(sl, key, value, newLevel, n).list)
DeleteWrites(t, key) == Written(t, Collect(DeleteResult(sl, key).list))

\* The lock protocol does not look at the nodes: where threads call any
\* method at any time, randomLevel gives every new node one level.
LockLevels == {1}
WriteInsert(t, key, value) ==
  InsertWrites(t, key, value, LockLevels) /\ UNCHANGED plan
WriteDelete(t, key) == DeleteWrites(t, key) /\ UNCHANGED plan
WritePopMin(t) == Written(t, Collect(PopMinResult(sl).list)) /\ UNCHANGED plan
WritePopMax(t) == Written(t, Collect(PopMaxResult(sl).list)) /\ UNCHANGED plan
WriteClear(t) == Written(t, ClearResult(sl)) /\ UNCHANGED plan

\* defer mutex.Unlock()
Unlock(t) ==
  /\ pc[t] = "written"
  /\ mutex' = [mutex EXCEPT !.w = NoThread]
  /\ pc' = [pc EXCEPT ![t] = "idle"]
  /\ UNCHANGED << sl, seqVars, it, plan, cursor >>

\* A reading method is called and mutex.RLock() returns.
RLock(t) ==
  /\ pc[t] = "idle"
  /\ CanRLock(mutex)
  /\ mutex' = [mutex EXCEPT !.readerCount = @ + 1]
  /\ pc' = [pc EXCEPT ![t] = "reading"]
  /\ UNCHANGED << sl, seqVars, it, plan, cursor >>

\* defer mutex.RUnlock()
RUnlock(t) ==
  /\ pc[t] = "reading"
  /\ mutex' = [mutex EXCEPT !.readerCount = @ - 1]
  /\ pc' = [pc EXCEPT ![t] = "idle"]
  /\ UNCHANGED << sl, seqVars, it, plan, cursor >>

\* RangeIterator: takes the shared lock and returns an iterator that holds
\* it (lockHeld = 1) until Close.  One iterator is followed at a time: the
\* next one is made when the calls on the previous one have returned.
RangeIterator(t) ==
  /\ pc[t] = "idle"
  /\ it.lockHeld = 0
  /\ \A u \in Threads : pc[u] \notin {"closeHeld", "closeFree"}
  /\ CanRLock(mutex)
  /\ mutex' = [mutex EXCEPT !.readerCount = @ + 1]
  /\ it' = [owner |-> t, lockHeld |-> 1, released |-> 0]
  /\ UNCHANGED << sl, seqVars, pc, plan, cursor >>

\* Next, Key, Value on the iterator of RangeIterator do not lock again; the
\* owner calls them while the iterator is open.
IterNext(t) ==
  /\ pc[t] = "idle"
  /\ it.owner = t /\ it.lockHeld = 1
  /\ pc' = [pc EXCEPT ![t] = "iterating"]
  /\ UNCHANGED << sl, seqVars, mutex, it, plan, cursor >>

IterReturn(t) ==
  /\ pc[t] = "iterating"
  /\ pc' = [pc EXCEPT ![t] = "idle"]
  /\ UNCHANGED << sl, seqVars, mutex, it, plan, cursor >>

\* Faulty variant: lockHeld is read and then cleared, the read value is not
\* the one the clearing replaced.
SwapLockHeldNotAtomic(held) == [lockHeld |-> 0, old |-> 1]

\* atomic.SwapUint32(&it.lockHeld, 0): the new value and the one returned.
SwapLockHeld(held) == [lockHeld |-> 0, old |-> held]

\* Close, first half: the atomic swap.  Any thread may call Close, while no
\* call on the iterator is under way.
CloseSwap(t) ==
  /\ pc[t] = "idle"
  /\ it.owner # NoThread
  /\ \A u \in Threads : pc[u] # "iterating"
  /\ it' = [it EXCEPT !.lockHeld = SwapLockHeld(it.lockHeld).lockHeld]
  /\ pc' = [pc EXCEPT ![t] = IF SwapLockHeld(it.lockHeld).old = 1
                             THEN "closeHeld" ELSE "closeFree"]
  /\ UNCHANGED << sl, seqVars, mutex, plan, cursor >>

\* Close, second half: RUnlock when the swap returned 1.
CloseReturn(t) ==
  /\ pc[t] \in {"closeHeld", "closeFree"}
  /\ IF pc[t] = "closeHeld"
     THEN /\ mutex' = [mutex EXCEPT !.readerCount = @ - 1]
          /\ it' = [it EXCEPT !.released = @ + 1]
     ELSE UNCHANGED << mutex, it >>
  /\ pc' = [pc EXCEPT ![t] = "idle"]
  /\ UNCHANGED << sl, seqVars, plan, cursor >>

\* The steps every workload shares.
LockStep(t) ==
  \/ TakeWriterMutex(t)
  \/ WaitReaders(t)
  \/ BeginWrite(t)
  \/ Unlock(t)
  \/ RUnlock(t)

NextLock ==
  \E t \in Threads :
     \/ CallLock(t)
     \/ LockStep(t)
     \/ \E key \in Keys : WriteInsert(t, key, "a")
     \/ \E key \in Keys : WriteDelete(t, key)
     \/ WritePopMin(t)
     \/ WritePopMax(t)
     \/ WriteClear(t)
     \/ RLock(t)
     \/ RangeIterator(t)
     \/ IterNext(t)
     \/ IterReturn(t)
     \/ CloseSwap(t)
     \/ CloseReturn(t)

\* Threads that call any public method at any time.
SpecLock == Init /\ [][NextLock]_vars

\* A call that has begun goes on: the thread is scheduled again.  For the
\* writes of a mutating method WriteClear stands for all of them: it is
\* enabled whenever any of them is, and a thread that makes another write
\* has gone on as well.
Continue(t) ==
  \/ LockStep(t)
  \/ WriteClear(t)
  \/ IterReturn(t)
  \/ CloseReturn(t)

\* The threads keep running: a call that can go on does go on.
SpecLockFair == SpecLock /\ \A t \in Threads : WF_vars(Continue(t))

\* ------------------------------------------------ visitor that calls back
\* The visitor of Range, RangeQuery or RangeWithIterator runs while the
\* method holds the shared lock ("reading").  When it calls a mutating method
\* of the same list the thread goes through that method's mutex.Lock():
\* "visitLock" -> "visitDrain" -> "visitLocked", still counted as a reader.
VisitorCallLock(t) ==
  /\ pc[t] = "reading"
  /\ pc' = [pc EXCEPT ![t] = "visitLock"]
  /\ UNCHANGED << sl, seqVars, mutex, it, plan, cursor >>

NextVisitor ==
  \/ NextLock
  \/ \E t \in Threads : VisitorCallLock(t)

\* Threads that call any public method at any time, also from a visitor.
SpecVisitor == Init /\ [][NextVisitor]_vars

\* ------------------------------------------------- disjoint-keys workload
\* TestSkipListConcurrent: first every thread inserts its own keys; when all
\* have finished (wg.Wait) the deleters delete their own keys while the other
\* threads search theirs.  plan.todo[t] are the keys t has still to work on.
Done(t, key) == [plan EXCEPT !.todo[t] = @ \ {key}]
PlanDone == \A t \in Threads : plan.todo[t] = {} /\ pc[t] = "idle"

\* sl.Insert(key, key) or sl.Delete(key) is called.
PlanCallLock(t) ==
  /\ plan.todo[t] # {}
  /\ plan.phase = "insert" \/ t \in plan.deleters
  /\ CallLock(t)

PlanInsert(t) ==
  /\ plan.phase = "insert"
  /\ \E key \in plan.todo[t] :
       /\ InsertWrites(t, key, "a", randomLevel)
       /\ plan' = Done(t, key)

PlanDelete(t) ==
  /\ plan.phase = "mixed"
  /\ \E key \in plan.todo[t] :
       /\ DeleteWrites(t, key)
       /\ plan' = Done(t, key)

\* sl.Search(key) is called and takes the shared lock; it writes nothing.
PlanSearch(t) ==
  /\ plan.phase = "mixed"
  /\ t \notin plan.deleters
  /\ pc[t] = "idle"
  /\ CanRLock(mutex)
  /\ \E key \in plan.todo[t] : plan' = Done(t, key)
  /\ mutex' = [mutex EXCEPT !.readerCount = @ + 1]
  /\ pc' = [pc EXCEPT ![t] = "reading"]
  /\ UNCHANGED << sl, seqVars, it, cursor >>

\* wg.Wait() after the inserts; then the second round of goroutines starts,
\* any of the threads being deleters.
StartMixed ==
  /\ plan.phase = "insert"
  /\ PlanDone
  /\ \E deleters \in SUBSET Threads :
       plan' = [phase |-> "mixed", deleters |-> deleters,
                todo |-> [t \in Threads |-> OwnKeys(t)],
                lenBefore |-> Length(sl)]
  /\ UNCHANGED << sl, seqVars, mutex, pc, it, cursor >>

NextDisjoint ==
  \/ StartMixed
  \/ \E t \in Threads :
       \/ PlanCallLock(t)
       \/ LockStep(t)
       \/ PlanInsert(t)
       \/ PlanDelete(t)
       \/ PlanSearch(t)

SpecDisjoint == Init /\ [][NextDisjoint]_vars

\* ---------------------------------------------------------------- Iterator
\* Iterator.current is an INode interface.  Nil is the nil interface; an
\* interface that holds a nil *node is another value, NilNode: it does not
\* compare equal to nil.
NilNode == -2
\* A *node stored in an INode variable (it.current = p).
AsINode(p) == IF p = Nil THEN NilNode ELSE p
\* it.current.(*node[K, V]): the pointer the interface holds, nil for both
\* the nil interface and the interface that holds a nil pointer.
AsNode(c) == IF c = NilNode THEN Nil ELSE c

\* NewIterator with the options WithReverse and WithEnd(end): before the
\* first element (header), for a reverse iterator after the last (nil).
NewIterator(reverse, hasEnd, end) ==
  [current |-> IF reverse THEN Nil ELSE AsINode(Header),
   unsafe |-> FALSE, reverse |-> reverse, hasEnd |-> hasEnd, end |-> end]

\* withUnsafe: the iterator does not lock in its methods.
withUnsafe(iter) == [iter EXCEPT !.unsafe = TRUE]

\* What a call on the iterator leaves and returns; panic is the run-time
\* error of a nil pointer dereference.
Moved(iter, c, ok) == [it |-> [iter EXCEPT !.current = c], ok |-> ok, panic |-> FALSE]
Panicked(iter) == [it |-> iter, ok |-> FALSE, panic |-> TRUE]

\* lastInternal: the last node by the walk of Max; nil on an empty list.
lastInternal(L, iter) ==
  LET current == LastDescend(L, Header, L.level)
  IN IF current = Header THEN Moved(iter, Nil, FALSE)
     ELSE Moved(iter, AsINode(current), TRUE)

\* Faulty variant: the end bound is exclusive for a reverse iterator.
WithinEndExclusive(L, iter, cur) == compare(KeyOf(L, cur), iter.end) < 0

\* it.sl.compare(cur.key, it.end) <= 0
WithinEnd(L, iter, cur) == compare(KeyOf(L, cur), iter.end) <= 0

RECURSIVE SkipAboveEnd(_, _, _)
\* The loop of the reverse Next that skips backward over the nodes > end,
\* entered with it.current = c.
SkipAboveEnd(L, iter, c) ==
  LET cur == AsNode(c) IN
  IF cur = Nil \/ cur = Header THEN Moved(iter, Nil, FALSE)
  ELSE IF WithinEnd(L, iter, cur) THEN Moved(iter, c, TRUE)
  ELSE IF AsINode(L.nodes[cur].backward) = Header THEN Moved(iter, Nil, FALSE)
  ELSE SkipAboveEnd(L, iter, AsINode(L.nodes[cur].backward))

\* Next of a reverse iterator.
NextReverse(L, iter) ==
  IF iter.current = Nil
  THEN IF ~lastInternal(L, iter).ok THEN lastInternal(L, iter)
       ELSE IF iter.hasEnd
            THEN SkipAboveEnd(L, iter, lastInternal(L, iter).it.current)
            ELSE lastInternal(L, iter)
  ELSE LET currentNode == AsNode(iter.current) IN
       IF currentNode = Header THEN Moved(iter, Nil, FALSE)
       ELSE IF currentNode = Nil THEN Panicked(iter)
       ELSE IF AsINode(L.nodes[currentNode].backward) = Header
            THEN Moved(iter, Nil, FALSE)
       ELSE IF iter.hasEnd
            THEN SkipAboveEnd(L, iter, AsINode(L.nodes[currentNode].backward))
            ELSE Moved(iter, AsINode(L.nodes[currentNode].backward), TRUE)

\* Faulty variant: the end bound is exclusive for a forward iterator.
PastEndExclusive(L, iter, nextNode) ==
  iter.hasEnd /\ compare(KeyOf(L, nextNode), iter.end) >= 0

\* if it.hasEnd { if it.sl.compare(nextNode.key, it.end) > 0 { ... } }
PastEnd(L, iter, nextNode) ==
  iter.hasEnd /\ compare(KeyOf(L, nextNode), iter.end) > 0

\* Faulty variant: Next moves two nodes on where there are two.
NextForwardSkipsNode(L, iter) ==
  LET currentNode == AsNode(iter.current) IN
  IF iter.current = Nil \/ currentNode = Nil THEN Moved(iter, Nil, FALSE)
  ELSE IF Fwd(L, currentNode, 0) = Nil THEN Moved(iter, Nil, FALSE)
  ELSE IF Fwd(L, Fwd(L, currentNode, 0), 0) = Nil
       THEN Moved(iter, AsINode(Fwd(L, currentNode, 0)), TRUE)
  ELSE Moved(iter, AsINode(Fwd(L, Fwd(L, currentNode, 0), 0)), TRUE)

\* Next of a forward iterator.
NextForward(L, iter) ==
  LET currentNode == AsNode(iter.current) IN
  IF iter.current = Nil \/ currentNode = Nil THEN Moved(iter, Nil, FALSE)
  ELSE IF Fwd(L, currentNode, 0) = Nil THEN Moved(iter, Nil, FALSE)
  ELSE IF PastEnd(L, iter, Fwd(L, currentNode, 0)) THEN Moved(iter, Nil, FALSE)
  ELSE Moved(iter, AsINode(Fwd(L, currentNode, 0)), TRUE)

\* Iterator.Next
IteratorNext(L, iter) ==
  IF iter.reverse THEN NextReverse(L, iter) ELSE NextForward(L, iter)

\* Prev of a reverse iterator: one step along forward[0].
PrevReverse(L, iter) ==
  LET currentNode == AsNode(iter.current) IN
  IF iter.current = Nil \/ currentNode = Nil THEN Moved(iter, Nil, FALSE)
  ELSE IF Fwd(L, currentNode, 0) = Nil THEN Moved(iter, Nil, FALSE)
  ELSE Moved(iter, AsINode(Fwd(L, currentNode, 0)), TRUE)

\* Faulty variant: the step onto the header is not taken for the end.
PrevForwardOntoHeader(L, iter) ==
  LET currentNode == AsNode(iter.current) IN
  IF iter.current = Nil \/ currentNode = Nil \/ currentNode = Header
  THEN Moved(iter, Nil, FALSE)
  ELSE Moved(iter, AsINode(L.nodes[currentNode].backward), TRUE)

\* Prev of a forward iterator: one step along backward.
PrevForward(L, iter) ==
  LET currentNode == AsNode(iter.current) IN
  IF iter.current = Nil \/ currentNode = Nil \/ currentNode = Header
  THEN Moved(iter, Nil, FALSE)
  ELSE IF AsINode(L.nodes[currentNode].backward) = Header
       THEN Moved(iter, Nil, FALSE)
       ELSE Moved(iter, AsINode(L.nodes[currentNode].backward), TRUE)

\* Iterator.Prev
IteratorPrev(L, iter) ==
  IF iter.reverse THEN PrevReverse(L, iter) ELSE PrevForward(L, iter)

\* Faulty variant: Key without the check for the header.
IteratorKeyOfHeader(L, iter) ==
  IF iter.current = Nil
  THEN [key |-> ZeroK, panic |-> "invalid"]
  ELSE IF AsNode(iter.current) = Nil THEN [key |-> ZeroK, panic |-> "nil"]
  ELSE [key |-> KeyOf(L, AsNode(iter.current)), panic |-> "no"]

\* Iterator.Key: panics by its own check on the nil interface and on the
\* header, and by a nil pointer dereference on an interface that holds nil.
IteratorKey(L, iter) ==
  IF iter.current = Nil \/ iter.current = Header
  THEN [key |-> ZeroK, panic |-> "invalid"]
  ELSE IF AsNode(iter.current) = Nil THEN [key |-> ZeroK, panic |-> "nil"]
  ELSE [key |-> KeyOf(L, AsNode(iter.current)), panic |-> "no"]

\* Iterator.Value: the checks of Key, then the value of the node.
IteratorValue(L, iter) ==
  IF iter.current = Nil \/ iter.current = Header
  THEN [value |-> ZeroV, panic |-> "invalid"]
  ELSE IF AsNode(iter.current) = Nil THEN [value |-> ZeroV, panic |-> "nil"]
  ELSE [value |-> ValueOf(L, AsNode(iter.current)), panic |-> "no"]

\* Iterator.findGreaterOrEqual: the walk of SkipList.findGreaterOrEqual.
IteratorFindGreaterOrEqual(L, key) == findGreaterOrEqual(L, key)

\* Iterator.Seek
IteratorSeek(L, iter, key) ==
  LET found == IteratorFindGreaterOrEqual(L, key) IN
  IF found # Nil /\ iter.hasEnd /\ compare(KeyOf(L, found), iter.end) > 0
  THEN Moved(iter, Nil, FALSE)
  ELSE Moved(iter, AsINode(found), found # Nil)

\* Iterator.Reset: back before the first element of the direction.
IteratorReset(iter) ==
  [iter EXCEPT !.current = IF iter.reverse THEN Nil ELSE AsINode(Header)]

\* Iterator.First: it.current = firstNode; return firstNode != nil
IteratorFirst(L, iter) ==
  Moved(iter, AsINode(Fwd(L, Header, 0)), Fwd(L, Header, 0) # Nil)

\* Iterator.Last
IteratorLast(L, iter) == lastInternal(L, iter)

\* Iterator.SeekToFirst: the position of Reset; true iff length > 0.
IteratorSeekToFirst(L, iter) == Moved(iter, IteratorReset(iter).current, L.length > 0)

\* Iterator.SeekToLast: the backward pointer of the last node, for either
\* direction; the header on an empty list.
IteratorSeekToLast(L, iter) ==
  LET lastNode == LastDescend(L, Header, L.level)
  IN IF lastNode = Header THEN Moved(iter, AsINode(Header), FALSE)
     ELSE Moved(iter, AsINode(L.nodes[lastNode].backward), TRUE)

\* Iterator objects live on the heap; a handle is the index of the object in
\* the sequence of the objects allocated so far.
\* Faulty variant: Clone hands out the iterator itself.
CloneSameObject(H, h) == [heap |-> H, ret |-> h]

\* Iterator.Clone: a new object with sl, current, unsafe and reverse of the
\* original; the fields the literal does not name have their zero values.
Clone(H, h) ==
  [heap |-> Append(H, [current |-> H[h].current, unsafe |-> H[h].unsafe,
                       reverse |-> H[h].reverse, hasEnd |-> FALSE, end |-> ZeroK]),
   ret |-> Len(H) + 1]

\* it.Next() on the object of handle h.
NextAt(L, H, h) == [H EXCEPT ![h] = IteratorNext(L, H[h]).it]

\* ----------------------------------------- an iterator beside the writers
\* One thread iterates with a safe forward iterator while the other threads
\* insert.  Insert holds the write lock and Next the read lock for the whole
\* body, so the calls take effect one at a time.

\* it := sl.NewIterator(): before holds the keys stored at that moment.
CursorCreate ==
  /\ ~cursor.made
  /\ cursor' = [made |-> TRUE, iter |-> NewIterator(FALSE, FALSE, ZeroK),
                before |-> {k \in Keys : Stored(sl, k)}, keys |-> << >>,
                done |-> FALSE]
  /\ last' = Call("NewIterator", FALSE)
  /\ UNCHANGED << sl, ref, fresh, agree, mutex, pc, it, plan >>

\* if it.Next() { keys = append(keys, it.Key()) }; a panic of Key() leaves
\* Nil in the place of the key.
CursorNext ==
  /\ cursor.made
  /\ ~cursor.done
  /\ LET r == IteratorNext(sl, cursor.iter)
         k == IteratorKey(sl, r.it)
     IN /\ cursor' = [cursor EXCEPT
                        !.iter = r.it,
                        !.done = ~r.ok,
                        !.keys = IF ~r.ok THEN @
                                 ELSE Append(@, IF k.panic = "no" THEN k.key ELSE Nil)]
        /\ last' = Call("Next", r.ok)
  /\ UNCHANGED << sl, ref, fresh, agree, mutex, pc, it, plan >>

NextCursor ==
  \/ \E key \in Keys, value \in Values : Insert(key, value)
  \/ CursorCreate
  \/ CursorNext

SpecCursor == Init /\ [][NextCursor]_vars

\* ------------------------------------------------------------ properties
\* Keys a caller may ask about: every key that can be stored, one below and
\* one above them.
QueryKeys == 0 .. (MaxKey + 1)
QueryRanks == (0 - 1) .. (MaxKey + 1)
\* The keys of the nodes of the base level.
StoredKeys(L) == {KeyOf(L, n) : n \in Live(L)}
\* The keys, in order, of a sequence of visited (key, value) pairs.
KeysOf(visited) == [j \in 1 .. Len(visited) |-> visited[j][1]]
StrictlyAscending(q) == \A j \in 1 .. (Len(q) - 1) : q[j] < q[j + 1]
StrictlyDescending(q) == \A j \in 1 .. (Len(q) - 1) : q[j] > q[j + 1]
AlwaysTrue == {}

\* C1: after any sequence of Insert, Delete, PopMin, PopMax and Clear, Range
\* with an always-true visitor visits exactly the pairs of the reference
\* sorted map driven by the same operations, in strictly ascending key order,
\* each key with the value of its latest Insert, and Len is the number of
\* pairs visited.
C1_RangeIsSortedMap ==
  /\ Range(sl, AlwaysTrue) = RefSorted(ref)
  /\ StrictlyAscending(KeysOf(Range(sl, AlwaysTrue)))
  /\ Length(sl) = Len(Range(sl, AlwaysTrue))

\* A key was deleted, another one is still stored after an update of its value.
C1_Witness ==
  /\ last.op = "Delete" /\ last.ok
  /\ Len(Range(sl, AlwaysTrue)) = 1
  /\ Range(sl, AlwaysTrue)[1][2] = "b"

\* C2: in every reachable state and for every key k, stored or not, Rank(k)
\* is the number of stored keys strictly less than k.
C2_RankCountsSmallerKeys ==
  \A k \in QueryKeys :
     Rank(sl, k) = Cardinality({j \in StoredKeys(sl) : j < k})

\* Two keys under a level-1 link: the rank of the larger key is read from spans.
C2_Witness ==
  /\ sl.length = 2 /\ sl.level >= 1
  /\ Rank(sl, MaxOf(StoredKeys(sl))) = 1
  /\ Rank(sl, MaxKey + 1) = 2
  /\ \E n \in Live(sl) : Len(sl.nodes[n].forward) = 1

\* C3: GetByRank(r) is not-found when r < 0 or r >= Len, and for every stored
\* key k GetByRank(Rank(k)) returns the node whose key is k.
C3_GetByRankInvertsRank ==
  /\ \A r \in QueryRanks :
        (r < 0 \/ r >= Length(sl)) => ~GetByRank(sl, r).ok
  /\ \A k \in StoredKeys(sl) :
        LET g == GetByRank(sl, Rank(sl, k))
        IN g.ok /\ HandleKey(sl, g.ret) = k

\* Two keys, the larger one at rank 1 is reached over a level-1 link.
C3_Witness ==
  /\ sl.length = 2 /\ sl.level >= 1
  /\ \E k \in StoredKeys(sl) :
        /\ Rank(sl, k) = 1
        /\ GetByRank(sl, 1).ok
        /\ HandleKey(sl, GetByRank(sl, 1).ret) = k
        /\ Len(sl.nodes[GetByRank(sl, 1).ret.id].forward) >= 2

\* The value stored under key k (k is stored).
StoredValue(L, k) == HandleValue(L, Search(L, k).ret)
\* The visited pairs without the pair of key k.
Without(visited, k) == SelectSeq(visited, LAMBDA pr : pr[1] # k)

\* C4: Insert(k, v2) of a stored key returns a handle through which the value
\* stored before the call is read; Insert of a key that is not stored
\* returns nil.
C4_InsertReturnsPreviousValue ==
  \A k \in Keys, v2 \in Values :
     IF Stored(sl, k)
     THEN LET r == InsertResult(sl, k, v2, 1, Nil)
          IN /\ ~r.ret.nil
             /\ HandleValue(r.list, r.ret) = StoredValue(sl, k)
     ELSE \A newLevel \in randomLevel, n \in InsertNode(sl, k) :
             InsertResult(sl, k, v2, newLevel, n).ret.nil

\* C5: Insert(k, v) of a stored key leaves Len, the ordered key sequence and
\* the values of all other keys unchanged, and Search(k) then returns v.
C5_UpdateChangesOnlyValue ==
  \A k \in StoredKeys(sl), v \in Values :
     LET after == InsertResult(sl, k, v, 1, Nil).list
     IN /\ Length(after) = Length(sl)
        /\ KeysOf(Range(after, AlwaysTrue)) = KeysOf(Range(sl, AlwaysTrue))
        /\ Without(Range(after, AlwaysTrue), k) = Without(Range(sl, AlwaysTrue), k)
        /\ Search(after, k).ok
        /\ HandleKey(after, Search(after, k).ret) = k
        /\ HandleValue(after, Search(after, k).ret) = v

\* An update of one of two stored keys has just replaced value "a" by "b".
C5_Witness ==
  /\ last.op = "Insert" /\ last.ok
  /\ sl.length = 2
  /\ \E k \in StoredKeys(sl) : StoredValue(sl, k) = "b"
  /\ \E k \in StoredKeys(sl) : StoredValue(sl, k) = "a"

\* C6: Delete(k) returns true iff k is stored; when it returns true Search(k)
\* no longer finds k, Len is one less and every other key keeps its value and
\* place in the order; when it returns false Len and the ordered sequence of
\* (key, value) pairs are unchanged.
C6_DeleteRemovesOnlyKey ==
  \A k \in QueryKeys :
     LET r == DeleteResult(sl, k)
     IN /\ r.ok <=> (k \in StoredKeys(sl))
        /\ r.ok => /\ ~Search(r.list, k).ok
                   /\ Length(r.list) = Length(sl) - 1
                   /\ Range(r.list, AlwaysTrue) = Without(Range(sl, AlwaysTrue), k)
        /\ ~r.ok => /\ Length(r.list) = Length(sl)
                    /\ Range(r.list, AlwaysTrue) = Range(sl, AlwaysTrue)

\* Delete has just removed a key and left another one; a Delete of the
\* removed key would now return false.
C6_Witness ==
  /\ last.op = "Delete" /\ last.ok
  /\ sl.length = 1
  /\ \E k \in Keys : ~Stored(sl, k) /\ ~DeleteResult(sl, k).ok
  /\ \E k \in StoredKeys(sl) : DeleteResult(sl, k).ok

\* The values Len can have after Insert(k, v) immediately followed by
\* Delete(k), over the values, the sampled heights and the allocator's nodes.
LenAfterInsertDelete(L, k) ==
  {Length(DeleteResult(InsertResult(L, k, v, newLevel, n).list, k).list) :
     v \in Values,
     newLevel \in IF Stored(L, k) THEN {1} ELSE randomLevel,
     n \in IF Stored(L, k) THEN {Nil} ELSE InsertNode(L, k)}

\* C7 as claimed: for any key k, Insert(k, v) immediately followed by
\* Delete(k) leaves Len equal to its value before the Insert.
C7_InsertDeleteRestoresLen ==
  \A k \in Keys : LenAfterInsertDelete(sl, k) = {Length(sl)}

\* C7 amended: for a key k that is not stored, Insert(k, v) immediately
\* followed by Delete(k) leaves Len equal to its value before the Insert; for
\* a stored key Len ends one less.
C7_InsertNewDeleteRestoresLen ==
  \A k \in Keys :
     LenAfterInsertDelete(sl, k) =
        IF Stored(sl, k) THEN {Length(sl) - 1} ELSE {Length(sl)}

\* A list of one key, reached by an Insert, and a key that is not stored:
\* Insert and Delete of that key end with Len = 1 again.
C7_Witness ==
  /\ last.op = "Insert"
  /\ sl.length = 1
  /\ \E k \in Keys : ~Stored(sl, k) /\ LenAfterInsertDelete(sl, k) = {1}

RECURSIVE DrainMin(_)
\* The keys returned by PopMin called until it reports not-found, and the
\* list it leaves.
DrainMin(L) ==
  LET r == PopMinResult(L)
  IN IF r.ok
     THEN LET d == DrainMin(r.list)
          IN [keys |-> << HandleKey(r.list, r.ret) >> \o d.keys, list |-> d.list]
     ELSE [keys |-> << >>, list |-> r.list]

RECURSIVE DrainMax(_)
DrainMax(L) ==
  LET r == PopMaxResult(L)
  IN IF r.ok
     THEN LET d == DrainMax(r.list)
          IN [keys |-> << HandleKey(r.list, r.ret) >> \o d.keys, list |-> d.list]
     ELSE [keys |-> << >>, list |-> r.list]

Reverse(q) == [j \in 1 .. Len(q) |-> q[Len(q) + 1 - j]]

\* C8: on a non-empty list PopMin returns the smallest stored key with its
\* value and removes exactly that key, PopMax the largest; PopMin called until
\* it reports not-found returns every stored key in strictly increasing order
\* (PopMax: strictly decreasing) and ends with Len = 0.
C8_PopReturnsExtremes ==
  /\ StoredKeys(sl) # {} =>
       LET lo == PopMinResult(sl)
           hi == PopMaxResult(sl)
           kmin == MinOf(StoredKeys(sl))
           kmax == MaxOf(StoredKeys(sl))
       IN /\ lo.ok /\ ~lo.ret.nil
          /\ HandleKey(lo.list, lo.ret) = kmin
          /\ HandleValue(lo.list, lo.ret) = StoredValue(sl, kmin)
          /\ Range(lo.list, AlwaysTrue) = Without(Range(sl, AlwaysTrue), kmin)
          /\ Length(lo.list) = Length(sl) - 1
          /\ hi.ok /\ ~hi.ret.nil
          /\ HandleKey(hi.list, hi.ret) = kmax
          /\ HandleValue(hi.list, hi.ret) = StoredValue(sl, kmax)
          /\ Range(hi.list, AlwaysTrue) = Without(Range(sl, AlwaysTrue), kmax)
          /\ Length(hi.list) = Length(sl) - 1
  /\ DrainMin(sl).keys = KeysOf(Range(sl, AlwaysTrue))
  /\ StrictlyAscending(DrainMin(sl).keys)
  /\ Length(DrainMin(sl).list) = 0
  /\ DrainMax(sl).keys = Reverse(KeysOf(Range(sl, AlwaysTrue)))
  /\ StrictlyDescending(DrainMax(sl).keys)
  /\ Length(DrainMax(sl).list) = 0

\* PopMin has just returned the smaller of two keys; the list is on two levels.
C8_Witness ==
  /\ last.op = "PopMin" /\ last.ok
  /\ sl.length = 1
  /\ sl.level >= 1
  /\ Len(DrainMax(sl).keys) = 1

\* The queries of the list, as a caller reads their results.
Answers(L) ==
  [search |-> [k \in QueryKeys |-> View(L, Search(L, k))],
   seek |-> [k \in QueryKeys |-> View(L, Seek(L, k))],
   pred |-> [k \in QueryKeys |-> View(L, Predecessor(L, k))],
   succ |-> [k \in QueryKeys |-> View(L, Successor(L, k))],
   rank |-> [k \in QueryKeys |-> Rank(L, k)],
   nth |-> [r \in QueryRanks |-> View(L, GetByRank(L, r))],
   min |-> View(L, Min(L)),
   max |-> View(L, Max(L)),
   len |-> Length(L),
   range |-> Range(L, AlwaysTrue),
   query |-> [a \in QueryKeys, b \in QueryKeys |-> RangeQuery(L, a, b, AlwaysTrue)],
   count |-> [a \in QueryKeys, b \in QueryKeys |-> CountRange(L, a, b)]]

\* C9: after Clear, Len = 0, level = 0 and every forward pointer of the
\* header is nil, and the operations that follow return what they return on a
\* freshly constructed list given the same operations and node heights.
C9_ClearIsFreshList ==
  /\ last.op = "Clear" =>
       /\ Length(sl) = 0
       /\ sl.level = 0
       /\ \A i \in Levels : Fwd(sl, Header, i) = Nil
  /\ agree
  /\ Answers(sl) = Answers(fresh)

\* Operations have followed a Clear that left spans in the header which a
\* freshly constructed list does not have.
C9_Witness ==
  /\ last.op = "Delete" /\ last.ok
  /\ sl.length = 1
  /\ sl.nodes # fresh.nodes

\* The list holds no key.
Empty == RefKeys(ref) = {}

\* C10: on an empty list Search, Min, Max, PopMin, PopMax, Predecessor,
\* Successor, Seek and GetByRank report not-found and leave the list as it
\* is, Rank returns 0, Range and RangeQuery do not call the visitor, and Len
\* returns 0.
C10_EmptyListAnswersNone ==
  Empty =>
    /\ ~Min(sl).ok /\ Min(sl).ret.nil
    /\ ~Max(sl).ok /\ Max(sl).ret.nil
    /\ ~PopMinResult(sl).ok /\ PopMinResult(sl).ret.nil
    /\ PopMinResult(sl).list = sl
    /\ ~PopMaxResult(sl).ok /\ PopMaxResult(sl).ret.nil
    /\ PopMaxResult(sl).list = sl
    /\ \A k \in QueryKeys :
          /\ ~Search(sl, k).ok /\ Search(sl, k).ret.nil
          /\ ~Predecessor(sl, k).ok /\ Predecessor(sl, k).ret.nil
          /\ ~Successor(sl, k).ok /\ Successor(sl, k).ret.nil
          /\ ~Seek(sl, k).ok /\ Seek(sl, k).ret.nil
          /\ Rank(sl, k) = 0
          /\ \A e \in QueryKeys : RangeQuery(sl, k, e, AlwaysTrue) = << >>
    /\ \A r \in QueryRanks : ~GetByRank(sl, r).ok /\ GetByRank(sl, r).ret.nil
    /\ Range(sl, AlwaysTrue) = << >>
    /\ Length(sl) = 0

\* The list was emptied by a pop and still carries the level-0 span of the
\* header written by an Insert.
C10_Witness ==
  /\ Empty
  /\ last.op = "PopMax" /\ last.ok
  /\ Span(sl, Header, 0) # 0

\* The key a query result points at, or Nil when it reports not-found.
ResultKey(L, r) == IF r.ok /\ ~r.ret.nil THEN HandleKey(L, r.ret) ELSE Nil
\* What the query should point at: the smallest (largest) key of S, or Nil.
SmallestOrNil(S) == IF S = {} THEN Nil ELSE MinOf(S)
LargestOrNil(S) == IF S = {} THEN Nil ELSE MaxOf(S)

\* C11: for every query key q, Seek(q) returns the smallest stored key >= q,
\* Predecessor(q) the largest stored key < q and Successor(q) the smallest
\* stored key > q, each reporting not-found exactly when there is no such key.
C11_SeekPredecessorSuccessor ==
  \A q \in QueryKeys :
     /\ Seek(sl, q).ok <=> ~Seek(sl, q).ret.nil
     /\ Predecessor(sl, q).ok <=> ~Predecessor(sl, q).ret.nil
     /\ Successor(sl, q).ok <=> ~Successor(sl, q).ret.nil
     /\ ResultKey(sl, Seek(sl, q)) = SmallestOrNil({k \in RefKeys(ref) : k >= q})
     /\ ResultKey(sl, Predecessor(sl, q)) = LargestOrNil({k \in RefKeys(ref) : k < q})
     /\ ResultKey(sl, Successor(sl, q)) = SmallestOrNil({k \in RefKeys(ref) : k > q})

\* Only the largest key is stored, under a node of two levels: Seek and
\* Successor of a smaller key find it, Predecessor of a larger key finds it,
\* and its own Successor and Predecessor are not found.
C11_Witness ==
  /\ RefKeys(ref) = {MaxKey}
  /\ sl.level >= 1
  /\ ResultKey(sl, Seek(sl, 1)) = MaxKey
  /\ ResultKey(sl, Successor(sl, 1)) = MaxKey
  /\ ResultKey(sl, Predecessor(sl, MaxKey + 1)) = MaxKey
  /\ ~Successor(sl, MaxKey).ok
  /\ ~Predecessor(sl, MaxKey).ok

RECURSIVE UpToFirstStop(_, _)
\* The visits a visitor sees that returns false at the keys of stopKeys: the
\* pairs up to and including the first one whose key is in stopKeys.
UpToFirstStop(pairs, stopKeys) ==
  IF pairs = << >> THEN << >>
  ELSE IF pairs[1][1] \in stopKeys THEN << pairs[1] >>
       ELSE << pairs[1] >> \o UpToFirstStop(Tail(pairs), stopKeys)

\* The pairs of the sorted sequence with start <= key <= end.
RefBetween(sorted, start, end) ==
  SelectSeq(sorted, LAMBDA pr : start <= pr[1] /\ pr[1] <= end)

\* C12: RangeQuery(start, end, f) calls f on exactly the stored keys in
\* [start, end], ascending, up to and including the first call that returns
\* false; when start > end f is never called and CountRange returns 0;
\* CountRange(start, end) is the number of calls RangeQuery makes with an
\* always-true f.
C12_RangeQueryVisitsInterval ==
  LET sorted == RefSorted(ref) IN
  \A start \in QueryKeys, end \in QueryKeys :
     LET between == RefBetween(sorted, start, end)
         count == CountRange(sl, start, end)
     IN /\ \A stopKeys \in SUBSET Keys :
              LET visits == RangeQuery(sl, start, end, stopKeys)
              IN /\ visits = UpToFirstStop(between, stopKeys)
                 /\ start > end => visits = << >>
        /\ start > end => count = 0
        /\ count = Len(RangeQuery(sl, start, end, AlwaysTrue))

\* Two keys are stored: a visitor that returns false at the first key sees
\* one pair, an always-true visitor sees both, an inverted interval none.
C12_Witness ==
  /\ sl.length = 2
  /\ Len(RangeQuery(sl, 0, MaxKey + 1, {MinOf(StoredKeys(sl))})) = 1
  /\ Len(RangeQuery(sl, 0, MaxKey + 1, AlwaysTrue)) = 2
  /\ CountRange(sl, 0, MaxKey + 1) = 2
  /\ CountRange(sl, MaxKey, 1) = 0
  /\ Len(RangeQuery(sl, 1, MaxKey, {MaxKey})) = 2

\* C13: while a mutating operation is between its first and its last write,
\* no other public operation, read or write, is executing inside the
\* structure.
C13_WritesExcludeEveryOperation ==
  \A t \in Threads :
     pc[t] = "writing" => \A u \in Threads \ {t} : ~Inside(u)

\* A writer is between its writes on a list that holds a key while the other
\* thread has called a mutating method and waits.
C13_Witness ==
  /\ pc["t1"] = "writing"
  /\ pc["t2"] = "Lock"
  /\ sl.length >= 1

\* A mutating call of thread t is inside the lock.
WriterInside(t) == pc[t] \in {"locked", "writing", "written"}

\* C15: while the iterator of RangeIterator has not been closed no Insert,
\* Delete, PopMin, PopMax or Clear of any thread is inside the lock, so none
\* completes; once Close has been called, a writer that was waiting for the
\* readers to leave eventually completes its writes.
C15_OpenIteratorBlocksWriters ==
  /\ [](it.lockHeld = 1 => \A t \in Threads : ~WriterInside(t))
  /\ \A t \in Threads :
        (pc[t] = "drain" /\ it.lockHeld = 0) ~> (pc[t] = "written")

\* The iterator is open and a writer has announced itself and waits.
C15_Witness ==
  /\ it.lockHeld = 1
  /\ it.owner = "t1"
  /\ pc["t2"] = "drain"

\* The iterator of RangeIterator still holds the shared lock it took.
IteratorHoldsLock == it.owner # NoThread /\ it.released = 0

\* C16: whatever Close calls are made on an iterator that holds the shared
\* lock, by one thread or by several at once, the lock is released exactly
\* once; Close on an iterator that does not hold the lock changes nothing.
C16_CloseReleasesOnce ==
  /\ it.released <= 1
  /\ mutex.readerCount =
        Cardinality({t \in Threads : pc[t] = "reading"})
          + (IF IteratorHoldsLock THEN 1 ELSE 0)
  /\ it.lockHeld = 1 => IteratorHoldsLock
  /\ (it.owner # NoThread /\ it.lockHeld = 0
         /\ \A t \in Threads : pc[t] # "closeHeld") => it.released = 1
  /\ Cardinality({t \in Threads : pc[t] = "closeHeld"}) <= 1

\* Three threads are in Close at once: one has seen lockHeld = 1 and has
\* still to release the lock, the others have seen 0.
C16_Witness ==
  /\ pc["t1"] = "closeHeld"
  /\ pc["t2"] = "closeFree"
  /\ pc["t3"] = "closeFree"
  /\ it.released = 0
  /\ mutex.readerCount = 1

\* ---------------------------------------------------- iterator properties
RECURSIVE NextKeys(_, _, _)
\* for it.Next() { keys = append(keys, it.Key()) }: the keys Key() returns
\* after each Next() that returns true, up to the first Next() that returns
\* false, in at most n calls of Next.  A panic ends the sequence with Nil.
NextKeys(L, iter, n) ==
  IF n = 0 THEN << >>
  ELSE LET r == IteratorNext(L, iter) IN
       IF r.panic THEN << Nil >>
       ELSE IF ~r.ok THEN << >>
       ELSE IF IteratorKey(L, r.it).panic # "no" THEN << Nil >>
       ELSE << IteratorKey(L, r.it).key >> \o NextKeys(L, r.it, n - 1)

\* One call of Next more than there can be keys: a sequence of fewer keys
\* was ended by a Next() that returned false.
MaxCalls == MaxKey + 1
\* The keys of sequence q that are <= e.
UpTo(q, e) == SelectSeq(q, LAMBDA k : k <= e)

\* C17: on an unchanged list the Next() calls of a new forward iterator
\* return true once for each stored key, ascending, Key() returning that key,
\* and then return false; with an inclusive end bound e exactly the stored
\* keys <= e are yielded.
C17_ForwardIteratorAscending ==
  LET keys == KeysOf(RefSorted(ref)) IN
  /\ NextKeys(sl, NewIterator(FALSE, FALSE, ZeroK), MaxCalls) = keys
  /\ \A e \in QueryKeys :
        NextKeys(sl, NewIterator(FALSE, TRUE, e), MaxCalls) = UpTo(keys, e)

\* Two keys are stored: the iterator yields both, and with the smaller key as
\* end bound only that one.
C17_Witness ==
  /\ sl.length = 2
  /\ NextKeys(sl, NewIterator(FALSE, FALSE, ZeroK), MaxCalls)
        = << MinOf(StoredKeys(sl)), MaxOf(StoredKeys(sl)) >>
  /\ NextKeys(sl, NewIterator(FALSE, TRUE, MinOf(StoredKeys(sl))), MaxCalls)
        = << MinOf(StoredKeys(sl)) >>

\* C18: on an unchanged list the Next() calls of a new reverse iterator yield
\* every stored key, descending, and then return false; with an inclusive end
\* bound e the iterator starts at the largest stored key <= e and yields
\* exactly the stored keys <= e, descending, and nothing when e is below the
\* smallest key.
C18_ReverseIteratorDescending ==
  LET keys == KeysOf(RefSorted(ref)) IN
  /\ NextKeys(sl, NewIterator(TRUE, FALSE, ZeroK), MaxCalls) = Reverse(keys)
  /\ \A e \in QueryKeys :
        NextKeys(sl, NewIterator(TRUE, TRUE, e), MaxCalls)
           = Reverse(UpTo(keys, e))

\* Two keys are stored: the reverse iterator yields the larger and then the
\* smaller one; with the smaller key as end bound it starts there, and with
\* a bound below both it yields nothing.
C18_Witness ==
  /\ sl.length = 2
  /\ NextKeys(sl, NewIterator(TRUE, FALSE, ZeroK), MaxCalls)
        = << MaxOf(StoredKeys(sl)), MinOf(StoredKeys(sl)) >>
  /\ NextKeys(sl, NewIterator(TRUE, TRUE, MinOf(StoredKeys(sl))), MaxCalls)
        = << MinOf(StoredKeys(sl)) >>
  /\ NextKeys(sl, NewIterator(TRUE, TRUE, 0), MaxCalls) = << >>

\* The stored keys Seek(k) may position on.
Ceiling(k) == {x \in RefKeys(ref) : x >= k}
\* Seek finds the smallest stored key >= k, within the end bound if any.
SeekFinds(iter, k) ==
  Ceiling(k) # {} /\ (iter.hasEnd => MinOf(Ceiling(k)) <= iter.end)
\* An exhausted iterator: current is nil, the state Next leaves when it has
\* returned false.
Exhausted(iter) == iter.current = Nil
\* The iterators Seek is called on.
Iterators ==
  {NewIterator(reverse, hasEnd, e) :
     reverse \in BOOLEAN, hasEnd \in BOOLEAN, e \in QueryKeys}

\* The return value of Seek, and the position after a Seek that returned
\* true.
SeekReturnsAndPositions ==
  \A iter \in Iterators, k \in QueryKeys :
     LET r == IteratorSeek(sl, iter, k) IN
     /\ r.ok <=> SeekFinds(iter, k)
     /\ r.ok => IteratorKey(sl, r.it) = [key |-> MinOf(Ceiling(k)), panic |-> "no"]

\* C19: Seek(k) returns true iff a stored key >= k exists that is, when the
\* iterator has an end bound, <= the bound; after true the iterator is on the
\* smallest stored key >= k and Key() returns it without a call of Next;
\* after false the iterator is exhausted.
C19_SeekPositionsOnCeiling ==
  /\ SeekReturnsAndPositions
  /\ \A iter \in Iterators, k \in QueryKeys :
        ~IteratorSeek(sl, iter, k).ok => Exhausted(IteratorSeek(sl, iter, k).it)

\* C20: after Seek(k) on a forward iterator the first Next() that follows
\* positions the iterator on the smallest stored key >= k; when no stored key
\* is >= k that Next() returns false.
C20_NextAfterSeekLandsOnCeiling ==
  \A k \in QueryKeys :
     LET seek == IteratorSeek(sl, NewIterator(FALSE, FALSE, ZeroK), k)
         next == IteratorNext(sl, seek.it)
     IN IF Ceiling(k) = {}
        THEN ~next.ok /\ ~next.panic
        ELSE /\ next.ok
             /\ IteratorKey(sl, next.it) = [key |-> MinOf(Ceiling(k)), panic |-> "no"]

\* What does hold after Seek(k) on a forward iterator: the first Next() that
\* follows moves to the smallest stored key > k', k' being the key Seek
\* found, and returns false when there is none or Seek found none.
NextAfterSeekPassesCeiling ==
  \A k \in QueryKeys :
     LET seek == IteratorSeek(sl, NewIterator(FALSE, FALSE, ZeroK), k)
         next == IteratorNext(sl, seek.it)
         after == IF Ceiling(k) = {} THEN {}
                  ELSE {x \in RefKeys(ref) : x > MinOf(Ceiling(k))}
     IN IF after = {} THEN ~next.ok /\ ~next.panic
        ELSE /\ next.ok
             /\ IteratorKey(sl, next.it) = [key |-> MinOf(after), panic |-> "no"]

\* ------------------------------------------------- structural invariants
RECURSIVE LevelChainFrom(_, _, _)
\* The nodes of the level-i chain that follow node n.
LevelChainFrom(L, n, i) ==
  IF Fwd(L, n, i) = Nil THEN << >>
  ELSE << Fwd(L, n, i) >> \o LevelChainFrom(L, Fwd(L, n, i), i)
LevelChain(L, i) == LevelChainFrom(L, Header, i)

RECURSIVE SpanSumFrom(_, _, _)
\* Sum of span[i] over node n and the nodes of the level-i chain after it.
SpanSumFrom(L, n, i) ==
  Span(L, n, i) + (IF Fwd(L, n, i) = Nil THEN 0
                   ELSE SpanSumFrom(L, Fwd(L, n, i), i))

\* P1: every level chain is strictly increasing.
ChainsAscending(L) ==
  \A i \in 0 .. L.level :
     \A j \in 1 .. Len(LevelChain(L, i)) - 1 :
        compare(KeyOf(L, LevelChain(L, i)[j]),
                KeyOf(L, LevelChain(L, i)[j + 1])) < 0
\* P2: the spans along every level chain add up to length.
SpansSumToLength(L) ==
  \A i \in 0 .. L.level : SpanSumFrom(L, Header, i) = L.length
\* P3: length counts the nodes of the base level.
LengthCountsNodes(L) == L.length = Len(Chain(L))
\* P4: the base level is doubly linked.
BackwardConsistent(L) ==
  \A n \in Live(L) :
     /\ L.nodes[n].backward \in {Header} \cup Live(L)
     /\ Fwd(L, L.nodes[n].backward, 0) = n

\* Every node of the chain of level i >= 1 is in the chain of level i - 1.
ChainNodes(L, i) == {LevelChain(L, i)[j] : j \in 1 .. Len(LevelChain(L, i))}
ChainsNested(L) ==
  \A i \in 1 .. L.level : ChainNodes(L, i) \subseteq ChainNodes(L, i - 1)

LinksOK(L) ==
  ChainsAscending(L) /\ LengthCountsNodes(L) /\ BackwardConsistent(L)
StructureOK(L) == LinksOK(L) /\ SpansSumToLength(L)

KeysOfThreads(T) == UNION {OwnKeys(t) : t \in T}

\* C14: when the threads have inserted their disjoint key sets, Len is the
\* number of keys inserted; when afterwards the deleters have deleted their
\* own keys and the other threads have searched theirs, Len is the previous
\* Len less the number of deleted keys and every structural invariant
\* (ordered chains, span sums, length, double links) holds.
C14_DisjointInsertsThenDeletes ==
  /\ (plan.phase = "insert" /\ PlanDone) =>
        Length(sl) = Cardinality(KeysOfThreads(Threads))
  /\ (plan.phase = "mixed" /\ PlanDone) =>
        /\ Length(sl) = plan.lenBefore - Cardinality(KeysOfThreads(plan.deleters))
        /\ StructureOK(sl)

\* The part of C14 that does not depend on the spans of the links to nil.
DisjointLenAndLinks ==
  /\ (plan.phase = "insert" /\ PlanDone) =>
        /\ Length(sl) = Cardinality(KeysOfThreads(Threads))
        /\ StructureOK(sl)
  /\ (plan.phase = "mixed" /\ PlanDone) =>
        /\ Length(sl) = plan.lenBefore - Cardinality(KeysOfThreads(plan.deleters))
        /\ LinksOK(sl)

\* C25: in every list reachable by Insert, Delete, PopMin, PopMax and Clear
\* the chain of every level i <= level is strictly increasing under the
\* comparator, and every node of a level i >= 1 is in the chain of every
\* lower level.
C25_ChainsOrderedAndNested == ChainsAscending(sl) /\ ChainsNested(sl)

\* Two keys are stored, the larger one under a node of two levels: the upper
\* chain skips the smaller key.
C25_Witness ==
  /\ sl.length = 2
  /\ sl.level = 1
  /\ Len(LevelChain(sl, 1)) = 1
  /\ KeyOf(sl, LevelChain(sl, 1)[1]) = MaxOf(StoredKeys(sl))
  /\ Len(LevelChain(sl, 0)) = 2

\* C26: after every completed mutating operation, for every level
\* i <= level, the spans of the nodes of the level-i chain, from the header
\* to the end, add up to length.
C26_SpanSumsEqualLength == SpansSumToLength(sl)

\* Position of node n in the base-level order, the header being 0.
Pos(L, n) ==
  IF n = Header THEN 0
  ELSE CHOOSE j \in 1 .. Len(Chain(L)) : Chain(L)[j] = n
\* The levels of node n.
LevelsOf(L, n) == {j - 1 : j \in DOMAIN L.nodes[n].forward}
\* The base-level nodes passed by following forward[i] of node n, the target
\* counted: up to the target, or up to the end of the list.
Traversed(L, n, i) ==
  IF Fwd(L, n, i) # Nil THEN Pos(L, Fwd(L, n, i)) - Pos(L, n)
  ELSE Len(Chain(L)) - Pos(L, n)

\* The spans of the links that have a target count the nodes passed.
LinkSpansCount(L) ==
  \A n \in {Header} \cup Live(L) : \A i \in LevelsOf(L, n) :
     Fwd(L, n, i) # Nil =>
        Span(L, n, i) = Pos(L, Fwd(L, n, i)) - Pos(L, n) /\ Span(L, n, i) >= 1

\* What holds of the spans: those of the links that have a target.
LinkSpansCountTraversed == LinkSpansCount(sl)

\* C27: after every completed mutating operation, for every node and every
\* level i of it, span[i] is the number of base-level nodes passed by
\* following forward[i], the target counted; it is 0 only for the header at
\* an empty level and at least 1 in every other case.
C27_SpansCountTraversedNodes ==
  \A n \in {Header} \cup Live(sl) : \A i \in LevelsOf(sl, n) :
     /\ Span(sl, n, i) = Traversed(sl, n, i)
     /\ IF n = Header /\ Fwd(sl, n, i) = Nil
        THEN Span(sl, n, i) = 0
        ELSE Span(sl, n, i) >= 1

\* C28: after every completed mutating operation every node x of the base
\* level has x.backward.forward[0] = x, and the backward pointer of the
\* first node is the header.
C28_BackwardLinksConsistent ==
  /\ BackwardConsistent(sl)
  /\ Chain(sl) # << >> => sl.nodes[Chain(sl)[1]].backward = Header

\* The larger of two keys is stored after the smaller one was deleted: it is
\* the first node now and points back at the header.
C28_Witness ==
  /\ last = Call("Delete", TRUE)
  /\ StoredKeys(sl) = {MaxKey}
  /\ sl.nodes[Chain(sl)[1]].backward = Header

\* The levels at which the header has a successor.
UsedLevels(L) == {i \in Levels : Fwd(L, Header, i) # Nil}

\* C29: after every completed mutating operation level is the largest i
\* with header.forward[i] non-nil, or 0 on an empty list, and it never
\* exceeds MaxLevel - 1, whatever heights in 1 .. MaxLevel were sampled.
C29_LevelIsHighestUsedLevel ==
  /\ sl.level = (IF UsedLevels(sl) = {} THEN 0 ELSE MaxOf(UsedLevels(sl)))
  /\ sl.length = 0 => sl.level = 0
  /\ sl.level <= MaxLevel - 1

\* A node of MaxLevel levels was stored and is gone: the level went up to
\* MaxLevel - 1 and is back at the height of the node that is left.
C29_Witness ==
  /\ last = Call("Delete", TRUE)
  /\ sl.length = 1
  /\ sl.level = 0
  /\ \E i \in 1 .. (MaxLevel - 1) : Span(sl, Header, i) # 0

\* ------------------------------------------------- Key and Value panics
RECURSIVE AfterNexts(_, _, _)
\* The iterator after n calls of Next(); a call that panics leaves it as it
\* is.
AfterNexts(L, iter, n) ==
  IF n = 0 THEN iter ELSE AfterNexts(L, IteratorNext(L, iter).it, n - 1)

RECURSIVE Trail(_, _, _)
\* The positions an iterator passes in n calls of Next().
Trail(L, iter, n) ==
  IF n = 0 THEN {iter} ELSE {iter} \cup Trail(L, IteratorNext(L, iter).it, n - 1)

\* New iterators: forward and reverse, unbounded and with every end bound.
NewIterators ==
  {NewIterator(reverse, FALSE, ZeroK) : reverse \in BOOLEAN}
     \cup {NewIterator(reverse, TRUE, e) : reverse \in BOOLEAN, e \in QueryKeys}

\* The positions a caller can bring an iterator to on the list as it is: a
\* new iterator, after some calls of Next(), after a Seek.
Positions(L) ==
  UNION {Trail(L, iter, MaxCalls) : iter \in NewIterators}
     \cup {IteratorSeek(L, iter, k).it : iter \in NewIterators, k \in QueryKeys}

\* On the header, or with no current node.
OnHeaderOrExhausted(iter) == iter.current \in {Header, Nil, NilNode}

\* C21: Key() and Value() panic when the iterator is on the header or is
\* exhausted, also right after a Seek beyond the largest key returned false;
\* on a stored node they return the key and the value of that node.
C21_KeyValuePanicOffNodes ==
  /\ \A pos \in Positions(sl) :
        IF OnHeaderOrExhausted(pos)
        THEN IteratorKey(sl, pos).panic # "no" /\ IteratorValue(sl, pos).panic # "no"
        ELSE /\ pos.current \in Live(sl)
             /\ IteratorKey(sl, pos) = [key |-> KeyOf(sl, pos.current), panic |-> "no"]
             /\ IteratorValue(sl, pos)
                   = [value |-> ref[KeyOf(sl, pos.current)], panic |-> "no"]
  /\ \A iter \in NewIterators :
        LET r == IteratorSeek(sl, iter, MaxKey + 1) IN
        /\ ~r.ok
        /\ IteratorKey(sl, r.it).panic # "no"
        /\ IteratorValue(sl, r.it).panic # "no"

\* Two keys are stored: a new forward iterator is on the header, its first
\* Next() brings it onto the smallest key, its third one exhausts it, and a
\* Seek beyond the largest key leaves no node to read.
C21_Witness ==
  LET iter == NewIterator(FALSE, FALSE, ZeroK) IN
  /\ sl.length = 2
  /\ iter.current = Header
  /\ IteratorKey(sl, AfterNexts(sl, iter, 1)) = [key |-> MinOf(StoredKeys(sl)), panic |-> "no"]
  /\ IteratorValue(sl, AfterNexts(sl, iter, 1)).value = "b"
  /\ AfterNexts(sl, iter, 3).current = Nil
  /\ IteratorSeek(sl, iter, MaxKey + 1).it.current = NilNode

\* ---------------------------------------------------------------- Clone
\* The clone is where the original is and moves the same way.
CloneKeepsPosition(orig, clone) ==
  /\ clone.current = orig.current
  /\ clone.reverse = orig.reverse
  /\ clone.unsafe = orig.unsafe

\* Moving one of the two leaves the other where it is.
CloneIndependent(H, h, c) ==
  /\ c # h
  /\ NextAt(sl, H, h)[c] = H[c]
  /\ NextAt(sl, H, c)[h] = H[h]

\* The iterators Clone is called on: every position of a safe and of an
\* unsafe iterator.
CloneInputs == Positions(sl) \cup {withUnsafe(pos) : pos \in Positions(sl)}

\* What holds of Clone: position, direction and the unsafe flag are those of
\* the original, and the two objects move independently.
CloneCopiesCursor ==
  \A pos \in CloneInputs :
     LET r == Clone(<< pos >>, 1) IN
     /\ CloneKeepsPosition(pos, r.heap[r.ret])
     /\ CloneIndependent(r.heap, 1, r.ret)

\* C22: Clone returns an iterator with the position, direction, unsafe flag
\* and end bound of the original; moving one of the two does not move the
\* other; the clone yields the same remaining Next() sequence as the
\* original would.
C22_CloneIsIndependentCopy ==
  \A pos \in CloneInputs :
     LET r == Clone(<< pos >>, 1) IN
     /\ CloneKeepsPosition(pos, r.heap[r.ret])
     /\ r.heap[r.ret].hasEnd = pos.hasEnd
     /\ pos.hasEnd => r.heap[r.ret].end = pos.end
     /\ CloneIndependent(r.heap, 1, r.ret)
     /\ NextKeys(sl, r.heap[r.ret], MaxCalls) = NextKeys(sl, pos, MaxCalls)

\* The clone of a forward iterator that is on its end bound yields the next
\* key, the original does not.
CloneYieldsBeyondEnd ==
  \E pos \in Positions(sl) :
     LET r == Clone(<< pos >>, 1) IN
     /\ pos.hasEnd /\ ~pos.reverse /\ pos.current \in Live(sl)
     /\ KeyOf(sl, pos.current) = pos.end
     /\ NextKeys(sl, pos, MaxCalls) = << >>
     /\ NextKeys(sl, r.heap[r.ret], MaxCalls) # << >>

\* ------------------------------------------- removal of the current node
\* Every method of a safe iterator holds the read lock for its whole body, so
\* the writes of other threads happen between its calls.
\* The lists after another thread removed node x by Delete, PopMin or PopMax
\* (the node is reset and pooled), or by Clear (the nodes are left as they
\* are, a new pool never hands them out); held are the nodes Get cannot
\* return.
Removals(L, x) ==
  {[list |-> DeleteResult(L, KeyOf(L, x)).list, held |-> {}]}
     \cup (IF Fwd(L, Header, 0) = x
          THEN {[list |-> PopMinResult(L).list, held |-> {}]} ELSE {})
     \cup (IF Fwd(L, x, 0) = Nil
          THEN {[list |-> PopMaxResult(L).list, held |-> {}]} ELSE {})
     \cup {[list |-> ClearKeepingNodes(L), held |-> Live(L)]}

\* One more Insert by the other thread.
InsertAfter(a) ==
  {[list |-> InsertResult(a.list, k, "a", newLevel, n).list, held |-> a.held] :
     k \in Keys, newLevel \in randomLevel, n \in GetChoices(a.list) \ a.held}

\* The removal, followed by no, one or two Inserts.
RemovedThenInserted(L, x) ==
  LET one == UNION {InsertAfter(a) : a \in Removals(L, x)}
      two == UNION {InsertAfter(a) : a \in one}
  IN {a.list : a \in Removals(L, x) \cup one \cup two}

\* The call found the cursor dangling: it returns false and the iterator is
\* exhausted.
TreatedAsExhausted(r) == ~r.ok /\ ~r.panic /\ Exhausted(r.it)

\* C23: when another thread removes (Delete, PopMin, PopMax, Clear) the node
\* a safe iterator is on, possibly followed by Inserts, the next Next() or
\* Prev() of the iterator treats the cursor as exhausted and returns false:
\* it does not move onto a recycled node and yields no key out of order.
C23_RemovedCursorIsExhausted ==
  \A pos \in Positions(sl) :
     pos.current \in Live(sl) =>
        \A L2 \in RemovedThenInserted(sl, pos.current) :
           /\ TreatedAsExhausted(IteratorNext(L2, pos))
           /\ TreatedAsExhausted(IteratorPrev(L2, pos))

\* Prev() of a forward iterator whose node was deleted returns true and
\* leaves the iterator on no node.
PrevOnRemovedNodeReturnsTrue ==
  \E pos \in Positions(sl) :
     /\ pos.current \in Live(sl) /\ ~pos.reverse
     /\ LET r == IteratorPrev(DeleteResult(sl, KeyOf(sl, pos.current)).list, pos)
        IN r.ok /\ IteratorKey(sl, r.it).panic = "nil"

\* A forward iterator that yielded key k yields k again from the recycled
\* node after its node was removed and two Inserts followed.
NextFromRecycledNodeRepeatsKey ==
  \E pos \in Positions(sl) :
     /\ pos.current \in Live(sl) /\ ~pos.reverse
     /\ \E L2 \in RemovedThenInserted(sl, pos.current) :
           LET r == IteratorNext(L2, pos) IN
           /\ r.ok
           /\ IteratorKey(L2, r.it) = [key |-> KeyOf(sl, pos.current), panic |-> "no"]

\* After Clear a forward iterator walks on along the nodes of the old list.
NextAfterClearWalksOldList ==
  \E pos \in Positions(sl) :
     /\ pos.current \in Live(sl) /\ ~pos.reverse
     /\ IteratorNext(ClearKeepingNodes(sl), pos).ok

\* ----------------------------------------------------------------- arena
\* The slot Get hands out is a slot of the arena that holds no node of the
\* list; a chunk is appended exactly when the last chunk is exhausted.
GetGrowsWhenExhausted(L) ==
  LET g == arenaGet(L.arena) IN
  /\ g.ret \in 1 .. ChunkBase(g.arena, Len(g.arena.chunks) + 1)
  /\ g.ret \notin Live(L)
  /\ IF ChunkExhausted(L.arena)
     THEN /\ Len(g.arena.chunks) = Len(L.arena.chunks) + 1
          /\ g.ret = ChunkBase(L.arena, Len(L.arena.chunks) + 1) + 1
     ELSE g.arena.chunks = L.arena.chunks

\* Insert of a key that is not stored stores it, whatever the arena holds.
ArenaInsertSucceeds(L) ==
  \A key \in Keys \ StoredKeys(L), newLevel \in ArenaLevels :
     LET after == InsertResult(ArenaTake(L).list, key, "a", newLevel,
                               ArenaTake(L).ret).list
     IN /\ after.length = L.length + 1
        /\ StoredKeys(after) = StoredKeys(L) \cup {key}
        /\ Search(after, key).ok

\* After Clear the arena holds its first chunk only and hands out the first
\* slot of that chunk.
ClearKeepsFirstChunk(L) ==
  LET after == ArenaClearResult(L) IN
  /\ after.arena.chunks = << L.arena.chunks[1] >>
  /\ after.arena.pos = 0
  /\ arenaGet(after.arena).ret = 1
  /\ arenaGet(after.arena).arena.chunks = after.arena.chunks

C30_FailedAllocationChangesNothing ==
  \A key \in Keys \ StoredKeys(sl), value \in Values, newLevel \in randomLevel :
     LET after == InsertAborted(sl, key, value, newLevel) IN
     /\ after.length = sl.length
     /\ after.level = sl.level
     /\ after.nodes[Header].span = sl.nodes[Header].span
     /\ \A i \in Levels : LevelChain(after, i) = LevelChain(sl, i)

\* What holds of the aborted Insert: length and the chains are as before.
AbortKeepsLengthAndChains ==
  \A key \in Keys \ StoredKeys(sl), value \in Values, newLevel \in randomLevel :
     LET after == InsertAborted(sl, key, value, newLevel) IN
     /\ after.length = sl.length
     /\ \A i \in Levels : LevelChain(after, i) = LevelChain(sl, i)

\* The aborted Insert of a taller node leaves the level raised above every
\* level in use and a span written into the header.
AbortLeavesLevelRaised ==
  \E key \in Keys \ StoredKeys(sl), newLevel \in randomLevel :
     LET after == InsertAborted(sl, key, "a", newLevel) IN
     /\ sl.length = 1
     /\ after.level > sl.level
     /\ Fwd(after, Header, after.level) = Nil
     /\ Span(after, Header, after.level) = 1
     /\ Span(sl, Header, after.level) = 0

\* ------------------------------------------------------------ SeekToLast
\* The Next() that follows SeekToLast on iterator iter lands on the largest
\* key.
NextAfterSeekToLastIsMax(iter) ==
  LET r == IteratorSeekToLast(sl, iter)
      n == IteratorNext(sl, r.it)
  IN /\ r.ok <=> sl.length > 0
     /\ sl.length > 0 =>
           /\ n.ok /\ ~n.panic
           /\ IteratorKey(sl, n.it) = [key |-> MaxOf(RefKeys(ref)), panic |-> "no"]

\* What holds: the claim for forward iterators.
ForwardNextAfterSeekToLastIsMax ==
  NextAfterSeekToLastIsMax(NewIterator(FALSE, FALSE, ZeroK))

\* C31: after SeekToLast on a non-empty list the next Next() positions the
\* iterator on the largest key, for forward and for reverse iterators;
\* SeekToLast returns true iff the list is not empty.
C31_NextAfterSeekToLastIsLast ==
  \A reverse \in BOOLEAN : NextAfterSeekToLastIsMax(NewIterator(reverse, FALSE, ZeroK))

\* Two keys are stored: after SeekToLast the Next() of a reverse iterator
\* moves off the list and returns false.
ReverseNextAfterSeekToLastMisses ==
  LET r == IteratorSeekToLast(sl, NewIterator(TRUE, FALSE, ZeroK)) IN
  /\ sl.length = 2
  /\ r.ok
  /\ IteratorKey(sl, r.it).key = MinOf(StoredKeys(sl))
  /\ ~IteratorNext(sl, r.it).ok

\* ------------------------------------------------------------------ Prev
RECURSIVE PrevKeys(_, _, _)
\* for it.Prev() { keys = append(keys, it.Key()) }, in at most n calls; a
\* key that cannot be read ends the sequence with Nil.
PrevKeys(L, iter, n) ==
  IF n = 0 THEN << >>
  ELSE LET r == IteratorPrev(L, iter) IN
       IF ~r.ok THEN << >>
       ELSE IF IteratorKey(L, r.it).panic # "no" THEN << Nil >>
       ELSE << IteratorKey(L, r.it).key >> \o PrevKeys(L, r.it, n - 1)

\* The keys read after positioning call r and the calls of Prev() after it.
ThenPrevKeys(L, r) ==
  IF ~r.ok THEN << >>
  ELSE << IteratorKey(L, r.it).key >> \o PrevKeys(L, r.it, MaxCalls)

\* Prev() from a stored node: towards the smaller keys for a forward and
\* towards the larger keys for a reverse iterator; off the list it returns
\* false and the iterator is exhausted.
PrevStepsAgainstDirection ==
  \A pos \in Positions(sl) :
     pos.current \in Live(sl) =>
        LET k == KeyOf(sl, pos.current)
            beyond == IF pos.reverse THEN {x \in RefKeys(ref) : x > k}
                      ELSE {x \in RefKeys(ref) : x < k}
            r == IteratorPrev(sl, pos)
        IN IF beyond = {} THEN ~r.ok /\ Exhausted(r.it)
           ELSE /\ r.ok
                /\ IteratorKey(sl, r.it)
                     = [key |-> IF pos.reverse THEN MinOf(beyond) ELSE MaxOf(beyond),
                        panic |-> "no"]

\* First() and Last() find the smallest and the largest key for either
\* direction.
FirstAndLastIgnoreDirection ==
  \A iter \in NewIterators :
     LET f == IteratorFirst(sl, iter)
         l == IteratorLast(sl, iter)
     IN /\ f.ok <=> RefKeys(ref) # {}
        /\ l.ok <=> RefKeys(ref) # {}
        /\ f.ok => IteratorKey(sl, f.it) = [key |-> MinOf(RefKeys(ref)), panic |-> "no"]
        /\ l.ok => IteratorKey(sl, l.it) = [key |-> MaxOf(RefKeys(ref)), panic |-> "no"]

\* C32: Prev() of a forward iterator moves to the next smaller key and
\* returns false, leaving the iterator exhausted, when it moves off the
\* first element; Prev() of a reverse iterator moves to the next larger key;
\* First() and Last() position on the smallest and the largest key for
\* either direction; Last() and repeated Prev() on a forward iterator visit
\* all keys descending, First() and repeated Prev() on a reverse iterator
\* visit all keys ascending.
C32_PrevMovesAgainstDirection ==
  LET keys == KeysOf(RefSorted(ref)) IN
  /\ PrevStepsAgainstDirection
  /\ FirstAndLastIgnoreDirection
  /\ ThenPrevKeys(sl, IteratorLast(sl, NewIterator(FALSE, FALSE, ZeroK))) = Reverse(keys)
  /\ ThenPrevKeys(sl, IteratorFirst(sl, NewIterator(TRUE, FALSE, ZeroK))) = keys

\* Two keys are stored: Last() and Prev() on a forward iterator read the
\* larger, then the smaller key; First() and Prev() on a reverse iterator
\* the smaller, then the larger one.
C32_Witness ==
  /\ sl.length = 2
  /\ ThenPrevKeys(sl, IteratorLast(sl, NewIterator(FALSE, FALSE, ZeroK)))
        = << MaxOf(StoredKeys(sl)), MinOf(StoredKeys(sl)) >>
  /\ ThenPrevKeys(sl, IteratorFirst(sl, NewIterator(TRUE, FALSE, ZeroK)))
        = << MinOf(StoredKeys(sl)), MaxOf(StoredKeys(sl)) >>

\* ------------------------------------------------- visitor that calls back
\* The threads whose visitor has called a mutating method.
InVisitorLock(t) == pc[t] \in {"visitLock", "visitDrain"}

\* C33: a visitor passed to Range, RangeQuery or RangeWithIterator that
\* calls Insert, Delete, PopMin, PopMax or Clear on the same list never
\* returns from that call: the Lock() of the call never returns, because the
\* thread still holds the shared lock and Lock() waits for the readers to
\* leave.
C33_VisitorCallbackNeverReturns ==
  \A t \in Threads :
     /\ pc[t] # "visitLocked"
     /\ InVisitorLock(t) => mutex.readerCount >= 1 /\ ~(pc[t] = "visitDrain" /\ CanLock(mutex))

\* A visitor waits in Lock() with the internal mutex taken while it is the
\* only reader; another thread waits to read.
C33_Witness ==
  /\ pc["t1"] = "visitDrain"
  /\ mutex = [w |-> "t1", readerCount |-> 1]
  /\ pc["t2"] = "idle"

\* ---------------------------------------------------------- arena growth
\* The capacity the configuration asks of the chunk after one of capacity
\* prev: ceil(b / node size) with growth bytes b, else floor(prev * f) with
\* growth factor f, else the double.
ConfiguredCapacity(L, prev) ==
  IF L.arenaGrowthBytes > 0
  THEN (L.arenaGrowthBytes + (NodeSize - 1)) \div NodeSize
  ELSE IF L.arenaGrowthFactor.num > L.arenaGrowthFactor.den
       THEN (prev * L.arenaGrowthFactor.num) \div L.arenaGrowthFactor.den
       ELSE prev * 2

\* C34: with growth bytes b every chunk added after the first has capacity
\* ceil(b / node size), whatever the growth factor; with a growth factor f
\* only, the capacity is floor(previous capacity * f); with neither the
\* capacity doubles.
C34_ChunkCapacityFollowsOptions ==
  \A c \in 2 .. Len(sl.arena.chunks) :
     sl.arena.chunks[c] = ConfiguredCapacity(sl, sl.arena.chunks[c - 1])

\* Growth bytes for three nodes are configured and the second chunk holds
\* twice the first one.
GrowthBytesIgnored ==
  /\ sl.arenaGrowthBytes > 0
  /\ Len(sl.arena.chunks) >= 2
  /\ sl.arena.chunks[2] = 2 * sl.arena.chunks[1]
  /\ ConfiguredCapacity(sl, sl.arena.chunks[1]) = 3

\* No option is given and, after a Clear, the second chunk is as long as the
\* first one.
NoDoublingAfterClear ==
  /\ sl.arenaGrowthBytes = 0 /\ sl.arenaGrowthFactor = NoFactor
  /\ Len(sl.arena.chunks) >= 2
  /\ sl.arena.chunks[2] = sl.arena.chunks[1]

\* -------------------------------------------------- spans of links to nil
\* List L with v written into the span of every link that has no target.
WithEndSpans(L, v) ==
  [L EXCEPT !.nodes = [n \in DOMAIN L.nodes |->
      [L.nodes[n] EXCEPT !.span = [j \in DOMAIN @ |->
          IF L.nodes[n].forward[j] = Nil THEN v ELSE @[j]]]]]

\* Rank and GetByRank return the same whatever the spans of the links to
\* nil hold.
EndSpansNotRead ==
  \A v \in 0 .. (MaxSpan + 1) :
     /\ \A k \in QueryKeys : Rank(WithEndSpans(sl, v), k) = Rank(sl, k)
     /\ \A r \in QueryRanks : GetByRank(WithEndSpans(sl, v), r) = GetByRank(sl, r)

\* C35: after every completed mutating operation, for every node x (the
\* header included) and every level i at which x.forward[i] is not nil,
\* x.span[i] is position(x.forward[i]) - position(x) in the order of the
\* base level; the spans of the links to nil never influence the result of
\* Rank or GetByRank.
C35_LinkSpansArePositionDifferences ==
  /\ \A n \in {Header} \cup Live(sl) : \A i \in LevelsOf(sl, n) :
        Fwd(sl, n, i) # Nil => Span(sl, n, i) = Pos(sl, Fwd(sl, n, i)) - Pos(sl, n)
  /\ EndSpansNotRead

\* Two keys are stored, the header reaches the second node by a link of span
\* 2, and a link to nil holds a span that is not the number of nodes behind
\* it.
C35_Witness ==
  /\ sl.length = 2
  /\ Span(sl, Header, 1) = 2 /\ Fwd(sl, Header, 1) # Nil
  /\ \E n \in Live(sl) : \E i \in LevelsOf(sl, n) :
        Fwd(sl, n, i) = Nil /\ Span(sl, n, i) # Traversed(sl, n, i)

\* --------------------------------------------------- Next after the end
\* Once Next() has returned false on position pos, the calls of Next() that
\* follow return false as well.
StaysExhausted(pos) ==
  LET r == IteratorNext(sl, pos) IN
  (~r.ok /\ ~r.panic) =>
     \A n \in 0 .. MaxCalls : ~IteratorNext(sl, AfterNexts(sl, r.it, n)).ok

\* What holds: the claim for forward iterators.
ForwardStaysExhausted ==
  \A pos \in Positions(sl) : ~pos.reverse => StaysExhausted(pos)

ReverseNextRestarts ==
  LET iter == NewIterator(TRUE, FALSE, ZeroK) IN
  /\ sl.length = 1
  /\ IteratorNext(sl, iter).ok
  /\ ~IteratorNext(sl, AfterNexts(sl, iter, 1)).ok
  /\ IteratorNext(sl, AfterNexts(sl, iter, 2)).ok
  /\ IteratorKey(sl, AfterNexts(sl, iter, 3)) = IteratorKey(sl, AfterNexts(sl, iter, 1))

\* ------------------------------------------------ calls that do not abort
\* The iterators one call of a method of the iterator leaves, from the
\* iterators of S; a call that panics leaves the iterator as it is.
AfterOneCall(L, S) ==
  {IteratorNext(L, c).it : c \in S} \cup {IteratorPrev(L, c).it : c \in S}
     \cup {IteratorFirst(L, c).it : c \in S} \cup {IteratorLast(L, c).it : c \in S}
     \cup {IteratorSeekToFirst(L, c).it : c \in S}
     \cup {IteratorSeekToLast(L, c).it : c \in S}
     \cup {IteratorReset(c) : c \in S}
     \cup {IteratorSeek(L, c, k).it : c \in S, k \in QueryKeys}

RECURSIVE CursorClosure(_, _)
\* The least set that holds S and is closed under the calls.
CursorClosure(L, S) ==
  IF AfterOneCall(L, S) \subseteq S THEN S
  ELSE CursorClosure(L, S \cup AfterOneCall(L, S))

\* Every state of an iterator that its own methods reach on the list as it
\* is.
CursorStates(L) == CursorClosure(L, NewIterators)

\* What holds: Prev() never aborts, and Next() of a forward iterator never
\* aborts.
OnlyReverseNextAborts ==
  \A c \in CursorStates(sl) :
     /\ ~IteratorPrev(sl, c).panic
     /\ IteratorNext(sl, c).panic => c.reverse /\ c.current = NilNode

\* C37: from every state an iterator reaches through its own operations on
\* a list that is not mutated meanwhile, Next() and Prev() return a boolean
\* without aborting, for forward and for reverse iterators.
C37_NextAndPrevNeverAbort ==
  \A c \in CursorStates(sl) :
     ~IteratorNext(sl, c).panic /\ ~IteratorPrev(sl, c).panic

\* A key is stored, Seek beyond it on a reverse iterator returns false, and
\* the Next() that follows dereferences a nil pointer.
ReverseNextAfterFailedSeekAborts ==
  LET r == IteratorSeek(sl, NewIterator(TRUE, FALSE, ZeroK), MaxKey + 1) IN
  /\ sl.length > 0
  /\ ~r.ok
  /\ IteratorNext(sl, r.it).panic

\* ---------------------------------------------- iteration beside Inserts
\* The keys the loop has collected.
Yielded(q) == {q[i] : i \in DOMAIN q}

\* C38: while other threads perform only Inserts, a safe forward iterator
\* advanced with Next() yields strictly increasing keys, each of which is
\* stored in the list at the moment it is yielded, and after Next() returned
\* false it has yielded every key that was stored when the iterator was
\* created.
C38_ForwardIterationBesideInserts ==
  cursor.made =>
     /\ \A i \in DOMAIN cursor.keys :
           /\ cursor.keys[i] \in Keys
           /\ i > 1 => compare(cursor.keys[i - 1], cursor.keys[i]) < 0
     /\ (last.op = "Next" /\ last.ok) =>
           /\ cursor.keys # << >>
           /\ Stored(sl, cursor.keys[Len(cursor.keys)])
           /\ IteratorKey(sl, cursor.iter)
                 = [key |-> cursor.keys[Len(cursor.keys)], panic |-> "no"]
     /\ cursor.done => cursor.before \subseteq Yielded(cursor.keys)

\* The iteration has ended; it yielded every key stored at the creation of
\* the iterator and a key that was inserted after it.
C38_Witness ==
  /\ cursor.done
  /\ cursor.before # {}
  /\ Yielded(cursor.keys) \ cursor.before # {}

\* ------------------------------------------------- handles held by callers
\* The handles the queries return on list L.
HandlesOf(L) ==
  {r.ret : r \in {q \in {Min(L), Max(L)}
                        \cup {Search(L, k) : k \in QueryKeys}
                        \cup {Seek(L, k) : k \in QueryKeys}
                        \cup {Predecessor(L, k) : k \in QueryKeys}
                        \cup {Successor(L, k) : k \in QueryKeys}
                        \cup {GetByRank(L, rank) : rank \in QueryRanks} : q.ok}}

\* The lists after no, one or two Inserts.
InsertedOnly(L) ==
  LET zero == {[list |-> L, held |-> {}]}
      one == UNION {InsertAfter(a) : a \in zero}
      two == UNION {InsertAfter(a) : a \in one}
  IN {a.list : a \in zero \cup one \cup two}

\* What holds: the handle reports its key while no call removes the key.
HandleKeepsKeyWhileStored ==
  \A h \in HandlesOf(sl) : \A L2 \in InsertedOnly(sl) :
     HandleKey(L2, h) = HandleKey(sl, h)

HandleReadsZeroAfterDelete ==
  \E k \in Keys :
     /\ Search(sl, k).ok
     /\ HandleKey(sl, Search(sl, k).ret) = k
     /\ HandleKey(DeleteResult(sl, k).list, Search(sl, k).ret) = ZeroK

\* After Delete(k) and the Insert of another key the handle of Search(k)
\* reports that key: the node has been handed out again.
HandleReadsOtherKeyAfterReuse ==
  \E k \in Keys :
     /\ Search(sl, k).ok
     /\ \E L2 \in RemovedThenInserted(sl, Search(sl, k).ret.id) :
           /\ HandleKey(L2, Search(sl, k).ret) \in Keys \ {k}
           /\ ~Search(L2, k).ok

\* ------------------------------------------------------- the end bound
\* The call returned true and left the iterator beyond its end bound, or on
\* no element.
BeyondEnd(L, r) ==
  r.ok /\ ~(/\ IteratorKey(L, r.it).panic = "no"
            /\ compare(IteratorKey(L, r.it).key, r.it.end) <= 0)

\* What holds: Next and Seek keep an iterator within its end bound, from
\* every state of the iterator.
NextAndSeekKeepWithinEnd ==
  \A c \in CursorStates(sl) :
     c.hasEnd =>
        /\ ~BeyondEnd(sl, IteratorNext(sl, c))
        /\ \A k \in QueryKeys : ~BeyondEnd(sl, IteratorSeek(sl, c, k))

LastLandsBeyondEnd ==
  LET r == IteratorLast(sl, NewIterator(FALSE, TRUE, 1)) IN
  r.ok /\ IteratorKey(sl, r.it) = [key |-> 2, panic |-> "no"]

\* A reverse iterator with end bound 1 that Next() has put on key 1 is moved
\* to key 2 by Prev(), which returns true.
PrevStepsBeyondEnd ==
  LET n == IteratorNext(sl, NewIterator(TRUE, TRUE, 1))
      r == IteratorPrev(sl, n.it)
  IN /\ n.ok /\ IteratorKey(sl, n.it) = [key |-> 1, panic |-> "no"]
     /\ r.ok /\ IteratorKey(sl, r.it) = [key |-> 2, panic |-> "no"]

\* First() of an iterator with end bound 0, below every stored key, returns
\* true.
FirstLandsBeyondEnd ==
  LET r == IteratorFirst(sl, NewIterator(FALSE, TRUE, 0)) IN
  r.ok /\ IteratorKey(sl, r.it).key > 0
====
